---- MODULE Spec2Model ----
(***************************************************************************)
(* MetaStamp: stamping pipeline.                                           *)
(*   - formatDate            (utils/formatPresets.ts)                      *)
(*   - extractImageMetadata  (App.tsx)                                     *)
(*   - processImage          (App.tsx)                                     *)
(*   - handleFiles / handleClearAll / handleConfigChange (App.tsx)         *)
(* Strings are modelled as sequences of one-character strings, so that     *)
(* String.prototype.replace can be computed as the runtime computes it.    *)
(***************************************************************************)
EXTENDS Integers, Sequences, FiniteSets, TLC

VARIABLES
    \* ---- format engine harness (formatDate called on its own) ----
    fmtCalled,      \* TRUE once formatDate has been called
    fmtDate,        \* the Date argument of the call
    fmtFormat,      \* the format argument of the call
    fmtResult,      \* the string it returned
    \* ---- metadata resolver harness (extractImageMetadata on its own) ----
    exPc,           \* "idle" | "returned"
    exExif,         \* what exifr.parse produced for the call
    exNow,          \* the wall clock read by new Date()
    exResult,       \* the { date, usedFallback } it returned
    \* ---- font-size harness (relativeFontSize of processImage) ----
    fsCalled,       \* TRUE once the size has been computed
    fsFontSize,     \* config.fontSize
    fsWidth,        \* img.width
    fsResult10,     \* relativeFontSize, in tenths of a pixel
    \* ---- App component state ----
    images,         \* useState<ProcessedImage[]>: the WorkItem collection
    isProcessing,   \* useState<boolean>
    config,         \* useState<ImageConfig>: the fields the pipeline reads
    runs,           \* the handleFiles invocations in progress: locals, position
    nextId,         \* source of fresh WorkItem ids (Date.now()-random)
    liveUrls,       \* object URLs of output blobs created and not revoked
    revokedUrls,    \* object URLs passed to URL.revokeObjectURL
    fileUrls,       \* number of object URLs created for source files
    \* ---- overlay drawing (processImage 73-123, OverlayPreview 90-143) ----
    cvCalled,       \* TRUE once the overlay has been drawn
    cvIn,           \* config, surface size, measured text width, context
    cvDraws,        \* the strokeText / fillText calls made, in order
    cvOps,          \* every canvas call made, in order
    \* ---- download (handleDownloadSingle, handleDownloadAll) ----
    download,       \* the handleDownloadAll invocation in progress, if any
    emitted,        \* the download link clicked last, if any
    \* ---- configStorage.ts ----
    storage,        \* localStorage: the item under STORAGE_KEY, and whether
                    \* access to it throws
    stLoaded,       \* what loadConfig returned last: <<>> or <<config>>
    saveTimeout,    \* let saveTimeout: 0 (null) or the handle of a timer
    timers,         \* the pending setTimeout timers: handle and callback
    \* ---- lightbox (App.tsx 157-158, Lightbox.tsx 30) ----
    lightboxOpen,   \* useState<boolean>
    lightboxIndex,  \* useState<number>: the startIndex prop
    index,          \* Lightbox: useState<number>, position in lightboxImages
    \* ---- OverlayPreview ----
    pvCfg,          \* the config prop (the fields the overlay reads)
    pvTextWidth,    \* ctx.measureText(timestamp).width of the last drawing
    pvCtx,          \* the 2D context of the preview canvas, which persists
    pvDraws         \* the strokeText / fillText calls of the last drawing

fmtVars == <<fmtCalled, fmtDate, fmtFormat, fmtResult>>
exVars  == <<exPc, exExif, exNow, exResult>>
fsVars  == <<fsCalled, fsFontSize, fsWidth, fsResult10>>
appVars == <<images, isProcessing, config, runs, nextId, liveUrls,
            revokedUrls, fileUrls>>
cvVars  == <<cvCalled, cvIn, cvDraws, cvOps>>
dlVars  == <<download, emitted>>
stVars  == <<storage, stLoaded>>
tmVars  == <<saveTimeout, timers>>
lbVars  == <<lightboxOpen, lightboxIndex, index>>
pvVars  == <<pvCfg, pvTextWidth, pvCtx, pvDraws>>
vars    == <<fmtCalled, fmtDate, fmtFormat, fmtResult,
             exPc, exExif, exNow, exResult,
             fsCalled, fsFontSize, fsWidth, fsResult10,
             images, isProcessing, config, runs, nextId, liveUrls,
             revokedUrls, fileUrls,
             cvCalled, cvIn, cvDraws, cvOps,
             download, emitted,
             storage, stLoaded,
             saveTimeout, timers,
             lightboxOpen, lightboxIndex, index,
             pvCfg, pvTextWidth, pvCtx, pvDraws>>

Min(S) == CHOOSE x \in S : \A y \in S : x <= y
Max(S) == CHOOSE x \in S : \A y \in S : x >= y

(***************************************************************************)
(* Date values: the local-time fields a JavaScript Date exposes.           *)
(* month is getMonth(), 0..11.                                             *)
(***************************************************************************)
MkDate(y, mo, d, h, mi, s) ==
    [year |-> y, month |-> mo, day |-> d, hours |-> h, minutes |-> mi, seconds |-> s]

SampleYears   == {2024, 2026}
SampleMonths  == 0 .. 11
SampleDays    == {5, 18}
SampleHours   == {0, 9, 12, 14, 23}
SampleMinutes == {7, 30}
SampleSeconds == {3}

SampleDates ==
    { MkDate(y, mo, d, h, mi, s) :
        y \in SampleYears, mo \in SampleMonths, d \in SampleDays,
        h \in SampleHours, mi \in SampleMinutes, s \in SampleSeconds }

(***************************************************************************)
(* utils/formatPresets.ts                                                  *)
(***************************************************************************)
DATE_FORMAT_PRESETS ==
    { <<"Y","Y","Y","Y","-","M","M","-","D","D">>,
      <<"M","M","/","D","D","/","Y","Y","Y","Y">>,
      <<"D","D","/","M","M","/","Y","Y","Y","Y">>,
      <<"D","D"," ","M","M","M"," ","Y","Y","Y","Y">>,
      <<"M","M","M","M"," ","D","D",","," ","Y","Y","Y","Y">>,
      <<"D","D",".","M","M",".","Y","Y","Y","Y">> }

TIME_FORMAT_PRESETS ==
    { <<"H","H",":","m","m",":","s","s">>,
      <<"H","H",":","m","m">>,
      <<"h","h",":","m","m",":","s","s"," ","A">>,
      <<"h","h",":","m","m"," ","A">>,
      <<>> }

MONTH_NAMES ==
    << <<"J","a","n","u","a","r","y">>,
       <<"F","e","b","r","u","a","r","y">>,
       <<"M","a","r","c","h">>,
       <<"A","p","r","i","l">>,
       <<"M","a","y">>,
       <<"J","u","n","e">>,
       <<"J","u","l","y">>,
       <<"A","u","g","u","s","t">>,
       <<"S","e","p","t","e","m","b","e","r">>,
       <<"O","c","t","o","b","e","r">>,
       <<"N","o","v","e","m","b","e","r">>,
       <<"D","e","c","e","m","b","e","r">> >>

MONTH_SHORT ==
    << <<"J","a","n">>, <<"F","e","b">>, <<"M","a","r">>, <<"A","p","r">>,
       <<"M","a","y">>, <<"J","u","n">>, <<"J","u","l">>, <<"A","u","g">>,
       <<"S","e","p">>, <<"O","c","t">>, <<"N","o","v">>, <<"D","e","c">> >>

Digit(d) == <<"0","1","2","3","4","5","6","7","8","9">>[d + 1]

\* Number.prototype.toString() of a non-negative integer
RECURSIVE NumToString(_)
NumToString(n) ==
    IF n < 10 THEN <<Digit(n)>>
    ELSE NumToString(n \div 10) \o <<Digit(n % 10)>>

\* String.prototype.padStart(2, "0")
PadStart2(s) == IF Len(s) >= 2 THEN s ELSE <<"0">> \o s

\* const pad = (n) => n.toString().padStart(2, "0")
pad(n) == PadStart2(NumToString(n))

\* String.prototype.replace(pattern: string, replacement: string):
\* only the first (leftmost) occurrence of the pattern is replaced.
StrReplace(str, pat, rep) ==
    LET n == Len(pat)
        replaced(s) ==
            LET hits == { i \in 1 .. (Len(s) - n + 1) :
                            SubSeq(s, i, i + n - 1) = pat }
            IN  IF hits = {} THEN s
                ELSE LET i == Min(hits)
                     IN  SubSeq(s, 1, i - 1) \o rep \o SubSeq(s, i + n, Len(s))
    IN  \* the subject string is evaluated once
        CHOOSE r \in { replaced(s) : s \in {str} } : TRUE

hours12(date) == IF date.hours % 12 = 0 THEN 12 ELSE date.hours % 12
ampm(date)    == IF date.hours >= 12 THEN <<"P","M">> ELSE <<"A","M">>

formatDate(date, format) ==
    LET r1  == StrReplace(format, <<"Y","Y","Y","Y">>, NumToString(date.year))
        r2  == StrReplace(r1, <<"M","M","M","M">>, MONTH_NAMES[date.month + 1])
        r3  == StrReplace(r2, <<"M","M","M">>, MONTH_SHORT[date.month + 1])
        r4  == StrReplace(r3, <<"M","M">>, pad(date.month + 1))
        r5  == StrReplace(r4, <<"D","D">>, pad(date.day))
        r6  == StrReplace(r5, <<"H","H">>, pad(date.hours))
        r7  == StrReplace(r6, <<"h","h">>, pad(hours12(date)))
        r8  == StrReplace(r7, <<"m","m">>, pad(date.minutes))
        r9  == StrReplace(r8, <<"s","s">>, pad(date.seconds))
        r10 == StrReplace(r9, <<"A">>, ampm(date))
    IN  r10

combineFormats(dateFormat, timeFormat) ==
    IF timeFormat = <<>> THEN dateFormat
    ELSE dateFormat \o <<" ">> \o timeFormat

\* every combination the settings panel can produce from the presets
PresetFormats ==
    { combineFormats(d, t) : d \in DATE_FORMAT_PRESETS, t \in TIME_FORMAT_PRESETS }

\* custom format strings a user can type
CustomFormats ==
    { <<"A"," ","h","h",":","m","m">>,
      <<"M","M","M","M">>,
      <<"s","s",".","m","m",".","H","H">>,
      <<"h","e","l","l","o"," ","w","o","r","l","d">>,
      <<"Y","Y","Y","Y","/","Y","Y","Y","Y">>,
      <<"M","M","M","M"," ","M","M","M"," ","M","M">>,
      <<"M","M","M","M"," ","M","M","M","M">>,
      <<"D","D","-","D","D">>,
      <<"D","M","M","M","M">>,
      <<>> }

SampleFormats == PresetFormats \cup CustomFormats

(***************************************************************************)
(* Format engine harness: one call of formatDate on chosen arguments.      *)
(***************************************************************************)
FormatDateCall ==
    /\ ~fmtCalled
    /\ \E d \in SampleDates, f \in SampleFormats :
          /\ fmtCalled' = TRUE
          /\ fmtDate'   = d
          /\ fmtFormat' = f
          /\ fmtResult' = formatDate(d, f)
    /\ UNCHANGED <<exVars, fsVars, appVars, cvVars, dlVars, stVars, tmVars, lbVars, pvVars>>

(***************************************************************************)
(* App.tsx: extractImageMetadata                                           *)
(* exifr.parse either throws, yields undefined (no EXIF segment), or       *)
(* yields an object in which each picked tag is a Date or is missing.      *)
(* A tag is <<d>> when it holds the Date d and <<>> when it is missing.    *)
(***************************************************************************)
Absent == <<>>
Tag(d) == <<d>>

ExifThrow     == [kind |-> "throw", DateTimeOriginal |-> Absent,
                  CreateDate |-> Absent, ModifyDate |-> Absent]
ExifUndefined == [kind |-> "undefined", DateTimeOriginal |-> Absent,
                  CreateDate |-> Absent, ModifyDate |-> Absent]
ExifData(dto, cd, md) ==
    [kind |-> "data", DateTimeOriginal |-> dto, CreateDate |-> cd, ModifyDate |-> md]

\* if (exifData?.X): the tag is there and its value is truthy (a Date always is)
Truthy(v) == v # Absent
HasTag(exif, tag) == exif.kind = "data" /\ Truthy(exif[tag])

\* new Date(value) of a tag holding a Date: a Date with the same time value
NewDate(v) ==
    MkDate(v[1].year, v[1].month, v[1].day, v[1].hours, v[1].minutes, v[1].seconds)

\* variant: CreateDate is tested before DateTimeOriginal
extractImageMetadata_CreateDateFirst(exif, now) ==
    IF exif.kind = "throw"
    THEN [date |-> now, usedFallback |-> TRUE]
    ELSE IF HasTag(exif, "CreateDate")
    THEN [date |-> NewDate(exif.CreateDate), usedFallback |-> FALSE]
    ELSE IF HasTag(exif, "DateTimeOriginal")
    THEN [date |-> NewDate(exif.DateTimeOriginal), usedFallback |-> FALSE]
    ELSE IF HasTag(exif, "ModifyDate")
    THEN [date |-> NewDate(exif.ModifyDate), usedFallback |-> FALSE]
    ELSE [date |-> now, usedFallback |-> TRUE]

\* variant: the fallback return of line 41 does not set usedFallback
extractImageMetadata_FallbackUnflagged(exif, now) ==
    IF exif.kind = "throw"
    THEN [date |-> now, usedFallback |-> FALSE]
    ELSE IF HasTag(exif, "DateTimeOriginal")
    THEN [date |-> NewDate(exif.DateTimeOriginal), usedFallback |-> FALSE]
    ELSE IF HasTag(exif, "CreateDate")
    THEN [date |-> NewDate(exif.CreateDate), usedFallback |-> FALSE]
    ELSE IF HasTag(exif, "ModifyDate")
    THEN [date |-> NewDate(exif.ModifyDate), usedFallback |-> FALSE]
    ELSE [date |-> now, usedFallback |-> FALSE]

\* now: what new Date() reads from the wall clock when line 41 runs
extractImageMetadata(exif, now) ==
    IF exif.kind = "throw"
    THEN [date |-> now, usedFallback |-> TRUE]
    ELSE IF HasTag(exif, "DateTimeOriginal")
    THEN [date |-> NewDate(exif.DateTimeOriginal), usedFallback |-> FALSE]
    ELSE IF HasTag(exif, "CreateDate")
    THEN [date |-> NewDate(exif.CreateDate), usedFallback |-> FALSE]
    ELSE IF HasTag(exif, "ModifyDate")
    THEN [date |-> NewDate(exif.ModifyDate), usedFallback |-> FALSE]
    ELSE [date |-> now, usedFallback |-> TRUE]

CaptureDate == MkDate(2023, 5, 1, 12, 0, 0)
CreateDate2 == MkDate(2023, 5, 2, 8, 15, 0)
ModifyDate3 == MkDate(2024, 0, 1, 0, 30, 0)
ClockDate   == MkDate(2026, 3, 18, 14, 30, 45)
ClockDate2  == MkDate(2026, 7, 9, 9, 7, 3)

ExifDates == {CaptureDate, CreateDate2, ModifyDate3}
NowDates  == {ClockDate, ClockDate2}
ExifTags  == {Absent} \cup { Tag(d) : d \in ExifDates }

ExifOutcomes ==
    {ExifThrow, ExifUndefined} \cup
    { ExifData(a, b, c) : a \in ExifTags, b \in ExifTags, c \in ExifTags }

(***************************************************************************)
(* Metadata resolver harness: one call of extractImageMetadata.            *)
(***************************************************************************)
ExtractCall ==
    /\ exPc = "idle"
    /\ \E exif \in ExifOutcomes, now \in NowDates :
          /\ exPc'     = "returned"
          /\ exExif'   = exif
          /\ exNow'    = now
          /\ exResult' = extractImageMetadata(exif, now)
    /\ UNCHANGED <<fmtVars, fsVars, appVars, cvVars, dlVars, stVars, tmVars, lbVars, pvVars>>

(***************************************************************************)
(* App.tsx: processImage, effective font size (lines 67-71).               *)
(* Sizes are kept in units of 1/WIDTH_DIVISOR pixel so that img.width / 10 *)
(* is exact: relativeFontSize * 10 = max(min(fontSize * 10, width), 240).  *)
(***************************************************************************)
WIDTH_DIVISOR == 10
MIN_FONT_PX   == 24

MaxFontSize == 60
MaxWidth    == 700

\* config.fontSize: the small sizes, the default (120), the largest size the
\* settings slider offers (200) and a size beyond it
SampleFontSizes == (1 .. MaxFontSize) \cup {120, 200, 500}

\* variant: the upper bound img.width / 10 is not applied
relativeFontSize10_NoUpper(fontSize, width) ==
    Max({ fontSize * WIDTH_DIVISOR, MIN_FONT_PX * WIDTH_DIVISOR })

\* variant: the lower bound is applied before the upper bound
relativeFontSize10_MinLast(fontSize, width) ==
    Min({ Max({fontSize * WIDTH_DIVISOR, MIN_FONT_PX * WIDTH_DIVISOR}), width })

relativeFontSize10(fontSize, width) ==
    Max({ Min({fontSize * WIDTH_DIVISOR, width}), MIN_FONT_PX * WIDTH_DIVISOR })

FontSizeCall ==
    /\ ~fsCalled
    /\ \E fs \in SampleFontSizes, w \in 1 .. MaxWidth :
          /\ fsCalled'   = TRUE
          /\ fsFontSize' = fs
          /\ fsWidth'    = w
          /\ fsResult10' = relativeFontSize10(fs, w)
    /\ UNCHANGED <<fmtVars, exVars, appVars, cvVars, dlVars, stVars, tmVars, lbVars, pvVars>>

(***************************************************************************)
(* App.tsx: processImage, text position and shadow / stroke / fill (lines  *)
(* 73-123), and the same steps of OverlayPreview.tsx (lines 90-143).       *)
(* Coordinates are kept in tenths of a pixel, as relativeFontSize is.      *)
(* A draw call is recorded with the shadow attributes the context holds at *)
(* the call.                                                               *)
(***************************************************************************)
\* the shadowColor of a new 2D context (transparent black)
TransparentColor == "transparent"
ShadowBlack == "rgba(0, 0, 0, 0.5)"

\* shadowBlur, shadowOffsetX, shadowOffsetY, shadowColor of a new 2D context
NeutralShadow ==
    [blur |-> 0, offsetX |-> 0, offsetY |-> 0, color |-> TransparentColor]

\* SAMPLE_IMAGE_WIDTH, SAMPLE_IMAGE_HEIGHT: the preview canvas
SAMPLE_IMAGE_WIDTH  == 800
SAMPLE_IMAGE_HEIGHT == 600

Positions == {"bottomRight", "bottomLeft", "topRight", "topLeft"}

\* the fields of ImageConfig the overlay reads
OverlayConfigs ==
    [ position           : Positions,
      offsetX            : {0, 20},
      offsetY            : {20, 50},
      fontSize           : {12, 48, 120},
      strokeWidth        : {0, 5},
      dropShadowEnabled  : BOOLEAN,
      dropShadowBlur     : {0, 4},
      dropShadowOffsetX  : {0, 2},
      dropShadowOffsetY  : {0, 2},
      dropShadowColor    : {ShadowBlack, TransparentColor},
      fontColor          : {"#FBBF24"},
      strokeColor        : {"#000000"} ]

\* processImage draws on a canvas created for the image (a new context);
\* OverlayPreview draws on its one canvas, whose context keeps the shadow
\* colour of the previous drawing
OverlaySurfaces ==
    [ preview : {FALSE}, width : {100, 1000}, height : {80, 1000},
      shadow0 : {NeutralShadow} ]
    \cup
    [ preview : {TRUE}, width : {SAMPLE_IMAGE_WIDTH},
      height : {SAMPLE_IMAGE_HEIGHT},
      shadow0 : { [NeutralShadow EXCEPT !.color = c] :
                    c \in {ShadowBlack, TransparentColor} } ]

\* ctx.measureText(timestamp).width
TextWidths == {0, 37, 300}

\* variant: the right-aligned x ignores the text width
anchorX10_NoTextWidth(cfg, width, textWidth) ==
    CASE cfg.position = "bottomRight" -> (width - cfg.offsetX) * WIDTH_DIVISOR
      [] cfg.position = "bottomLeft"  -> cfg.offsetX * WIDTH_DIVISOR
      [] cfg.position = "topRight"    -> (width - cfg.offsetX) * WIDTH_DIVISOR
      [] cfg.position = "topLeft"     -> cfg.offsetX * WIDTH_DIVISOR

\* x of the switch on config.position
anchorX10(cfg, width, textWidth) ==
    CASE cfg.position = "bottomRight" ->
            (width - textWidth - cfg.offsetX) * WIDTH_DIVISOR
      [] cfg.position = "bottomLeft"  -> cfg.offsetX * WIDTH_DIVISOR
      [] cfg.position = "topRight"    ->
            (width - textWidth - cfg.offsetX) * WIDTH_DIVISOR
      [] cfg.position = "topLeft"     -> cfg.offsetX * WIDTH_DIVISOR

\* y of the switch on config.position
anchorY10(cfg, width, height) ==
    CASE cfg.position = "bottomRight" -> (height - cfg.offsetY) * WIDTH_DIVISOR
      [] cfg.position = "bottomLeft"  -> (height - cfg.offsetY) * WIDTH_DIVISOR
      [] cfg.position = "topRight"    ->
            relativeFontSize10(cfg.fontSize, width) + cfg.offsetY * WIDTH_DIVISOR
      [] cfg.position = "topLeft"     ->
            relativeFontSize10(cfg.fontSize, width) + cfg.offsetY * WIDTH_DIVISOR

\* "Apply drop shadow if enabled": the else branch exists in OverlayPreview
\* only
shadowForStroke(cfg, surface) ==
    IF cfg.dropShadowEnabled
    THEN [blur    |-> cfg.dropShadowBlur,
          offsetX |-> cfg.dropShadowOffsetX,
          offsetY |-> cfg.dropShadowOffsetY,
          color   |-> cfg.dropShadowColor]
    ELSE IF surface.preview THEN NeutralShadow ELSE surface.shadow0

\* variant: the shadow is left as it is for the fill
shadowForFill_NoReset(shadow) == shadow

\* "Reset shadow for fill": shadowBlur, shadowOffsetX, shadowOffsetY = 0
shadowForFill(shadow) ==
    [shadow EXCEPT !.blur = 0, !.offsetX = 0, !.offsetY = 0]

\* variant: the fill is drawn before the outline
drawOverlay_FillFirst(cfg, surface, textWidth) ==
    LET x10    == anchorX10(cfg, surface.width, textWidth)
        y10    == anchorY10(cfg, surface.width, surface.height)
        shadow == shadowForStroke(cfg, surface)
        stroke == IF cfg.strokeWidth > 0
                  THEN << [op |-> "strokeText", x10 |-> x10, y10 |-> y10,
                           shadow |-> shadow, style |-> cfg.strokeColor,
                           lineWidth |-> cfg.strokeWidth, lineJoin |-> "round"] >>
                  ELSE << >>
    IN  << [op |-> "fillText", x10 |-> x10, y10 |-> y10,
            shadow |-> shadowForFill(shadow), style |-> cfg.fontColor,
            lineWidth |-> 0, lineJoin |-> "none"] >> \o stroke

\* the text draw calls of one drawing, in order, each with the shadow
\* attributes and the strokeStyle / fillStyle in force at the call, and for
\* the outline its lineWidth and lineJoin
drawOverlay(cfg, surface, textWidth) ==
    LET x10    == anchorX10(cfg, surface.width, textWidth)
        y10    == anchorY10(cfg, surface.width, surface.height)
        shadow == shadowForStroke(cfg, surface)
        stroke == IF cfg.strokeWidth > 0
                  THEN << [op |-> "strokeText", x10 |-> x10, y10 |-> y10,
                           shadow |-> shadow, style |-> cfg.strokeColor,
                           lineWidth |-> cfg.strokeWidth, lineJoin |-> "round"] >>
                  ELSE << >>
    IN  stroke \o << [op |-> "fillText", x10 |-> x10, y10 |-> y10,
                      shadow |-> shadowForFill(shadow), style |-> cfg.fontColor,
                      lineWidth |-> 0, lineJoin |-> "none"] >>

\* a canvas call that draws no text: drawImage(source, 0, 0) onto a canvas
\* of the given size, clearRect, toBlob
canvasCall(op, surface) ==
    [op |-> op, x10 |-> 0, y10 |-> 0, shadow |-> NeutralShadow,
     style |-> "none", lineWidth |-> 0, lineJoin |-> "none",
     canvasWidth |-> surface.width, canvasHeight |-> surface.height]

\* processImage, img.onload (lines 54-140): the canvas takes the size of the
\* image, the image is drawn at (0, 0), the text is drawn, the canvas is
\* encoded.  OverlayPreview (lines 80-143): the canvas is cleared, the
\* sample image is drawn at (0, 0), the text is drawn.
canvasOps(cfg, surface, textWidth) ==
    LET text == drawOverlay(cfg, surface, textWidth)
    IN  IF surface.preview
        THEN << canvasCall("clearRect", surface), canvasCall("drawImage", surface) >>
             \o text
        ELSE << canvasCall("drawImage", surface) >> \o text
             \o << canvasCall("toBlob", surface) >>

\* the canvas draws a shadow for a call when shadowColor is not transparent
\* and the blur or an offset is not zero
CastsShadow(shadow) ==
    /\ shadow.color # TransparentColor
    /\ (shadow.blur # 0 \/ shadow.offsetX # 0 \/ shadow.offsetY # 0)

DrawOverlayCall ==
    /\ ~cvCalled
    /\ \E cfg \in OverlayConfigs, surface \in OverlaySurfaces,
          textWidth \in TextWidths :
          /\ cvCalled' = TRUE
          /\ cvIn'     = [cfg |-> cfg, surface |-> surface,
                          textWidth |-> textWidth]
          /\ cvDraws'  = drawOverlay(cfg, surface, textWidth)
          /\ cvOps'    = canvasOps(cfg, surface, textWidth)
    /\ UNCHANGED <<fmtVars, exVars, fsVars, appVars, dlVars, stVars, tmVars, lbVars, pvVars>>

(***************************************************************************)
(* App.tsx: the App component.                                             *)
(* A state update (setImages, setIsProcessing, setConfig) is taken to be   *)
(* visible to the next handler that runs.  WorkItem ids are fresh on every *)
(* creation.                                                               *)
(***************************************************************************)
MaxFiles == 2      \* files in one submission
MaxItems == 2      \* WorkItems created over a whole behaviour

EmptyString == <<>>

\* types/config.ts: DEFAULT_CONFIG
DEFAULT_CONFIG ==
    [ fontSize          |-> 120,
      fontFamily        |-> "Inter",
      fontColor         |-> "#FBBF24",
      strokeColor       |-> "#000000",
      strokeWidth       |-> 5,
      position          |-> "bottomRight",
      offsetX           |-> 20,
      offsetY           |-> 20,
      dropShadowEnabled |-> FALSE,
      dropShadowBlur    |-> 4,
      dropShadowOffsetX |-> 2,
      dropShadowOffsetY |-> 2,
      dropShadowColor   |-> "rgba(0, 0, 0, 0.5)",
      dateFormatPreset  |-> <<"Y","Y","Y","Y","-","M","M","-","D","D">>,
      timeFormatPreset  |-> <<"H","H",":","m","m",":","s","s">>,
      dateFormat        |-> <<"Y","Y","Y","Y","-","M","M","-","D","D"," ",
                              "H","H",":","m","m",":","s","s">>,
      useCustomFormat   |-> FALSE ]

\* a configuration with a custom format typed in the settings panel
CustomConfig ==
    [DEFAULT_CONFIG EXCEPT !.dateFormat = <<"h","h",":","m","m"," ","A">>,
                           !.useCustomFormat = TRUE]
SampleConfigs == {DEFAULT_CONFIG, CustomConfig}

\* the values the settings panel gives the fields the overlay reads (the
\* values of OverlayConfigs)
OverlayFieldValues ==
    [ position           |-> Positions,
      offsetX            |-> {0, 20},
      offsetY            |-> {20, 50},
      fontSize           |-> {12, 48, 120},
      strokeWidth        |-> {0, 5},
      dropShadowEnabled  |-> BOOLEAN,
      dropShadowBlur     |-> {0, 4},
      dropShadowOffsetX  |-> {0, 2},
      dropShadowOffsetY  |-> {0, 2},
      dropShadowColor    |-> {ShadowBlack, TransparentColor},
      fontColor          |-> {"#FBBF24"},
      strokeColor        |-> {"#000000"} ]

\* DEFAULT_CONFIG, the fields the overlay reads
DefaultOverlayConfig ==
    [f \in DOMAIN OverlayFieldValues |-> DEFAULT_CONFIG[f]]

\* file.type
ImageJpeg == <<"i","m","a","g","e","/","j","p","e","g">>
ImagePng  == <<"i","m","a","g","e","/","p","n","g">>
TextPlain == <<"t","e","x","t","/","p","l","a","i","n">>

\* content: "valid"  the image loads and the canvas encodes,
\*          "broken" img.onerror fires, or there is no 2D context, or
\*                   canvas.toBlob yields null
FilePool ==
    { [name |-> <<"a",".","j","p","g">>,
       type |-> ImageJpeg, content |-> "valid"],
      [name |-> <<"b",".","p","n","g">>,
       type |-> ImagePng,  content |-> "broken"],
      [name |-> <<"n","o","t","e","s",".","t","x","t">>,
       type |-> TextPlain, content |-> "valid"] }

Submissions == UNION { [1 .. n -> FilePool] : n \in 0 .. MaxFiles }

\* String.prototype.startsWith
StartsWith(s, prefix) ==
    /\ Len(s) >= Len(prefix)
    /\ SubSeq(s, 1, Len(prefix)) = prefix

IsImageFile(file) == StartsWith(file.type, <<"i","m","a","g","e","/">>)

\* variant: the content-type filter is missing
validFilesOf_NoFilter(files) == files

\* Array.from(files).filter((file) => file.type.startsWith("image/"))
validFilesOf(files) == SelectSeq(files, IsImageFile)

\* what exifr.parse yields for the files of the pipeline
PipelineExif ==
    { ExifThrow, ExifUndefined,
      ExifData(Absent, Tag(CreateDate2), Tag(ModifyDate3)) }

NoExif == [kind |-> "unset", DateTimeOriginal |-> Absent,
           CreateDate |-> Absent, ModifyDate |-> Absent]

\* the ProcessedImage placeholder of lines 187-194
newImage(id, file) ==
    [id |-> id, originalName |-> file.name, processedUrl |-> EmptyString,
     timestamp |-> EmptyString, usedFallback |-> FALSE, status |-> "processing"]

\* variant: the output URL is not stored with the item
markDone_NoUrl(prev, imageId, url, timestamp, usedFallback) ==
    [j \in DOMAIN prev |->
        IF prev[j].id = imageId
        THEN [prev[j] EXCEPT !.timestamp = timestamp,
                             !.usedFallback = usedFallback, !.status = "done"]
        ELSE prev[j]]

\* lines 205-217: prev.map(img => img.id === imageId ? {...img, done} : img)
markDone(prev, imageId, url, timestamp, usedFallback) ==
    [j \in DOMAIN prev |->
        IF prev[j].id = imageId
        THEN [prev[j] EXCEPT !.processedUrl = url, !.timestamp = timestamp,
                             !.usedFallback = usedFallback, !.status = "done"]
        ELSE prev[j]]

\* variant: the id test is missing, every item is marked
markError_All(prev, imageId) ==
    [j \in DOMAIN prev |-> [prev[j] EXCEPT !.status = "error"]]

\* lines 220-224: prev.map(img => img.id === imageId ? {...img, error} : img)
markError(prev, imageId) ==
    [j \in DOMAIN prev |->
        IF prev[j].id = imageId
        THEN [prev[j] EXCEPT !.status = "error"]
        ELSE prev[j]]

\* variant: the loop ends after the first settled item
advance_AbortBatch(rs, run) == rs \ {run}

\* the loop of lines 199-228 after item i of run has settled: the next file
\* is taken up, or the invocation returns and its locals are gone
advance(rs, run) ==
    IF run.i < Len(run.files)
    THEN (rs \ {run}) \cup
         { [run EXCEPT !.i = run.i + 1, !.pc = "resolve", !.exif = NoExif,
                       !.usedFallback = FALSE, !.timestamp = EmptyString] }
    ELSE rs \ {run}

\* setIsProcessing(false) of line 228 runs when the loop has ended
processingAfter(run, flag) == IF run.i < Len(run.files) THEN flag ELSE FALSE

\* the file and the WorkItem id the loop of run is at (lines 200-201)
fileOf(run)    == run.files[run.i]
imageIdOf(run) == run.ids[run.i]

\* URL.createObjectURL(blob) of line 130 returns a URL never returned before;
\* processImage runs once per WorkItem, so the item's id names its blob URL
ObjectUrl(imageId) == <<"blob:", imageId>>

IsDone(img) == img.status = "done"

\* variant: every item is taken, whatever its status
doneImagesOf_All(imgs) == imgs

\* images.filter((img) => img.status === "done")
doneImagesOf(imgs) == SelectSeq(imgs, IsDone)

\* Lightbox.tsx lines 18-21
clampIndex(idx, len) ==
    IF len <= 0 THEN 0 ELSE Max({0, Min({idx, len - 1})})

\* the effects that run after a render with lightbox state v and len
\* lightbox images, the previous render having had prevOpen, prevSafe
\* (safeStartIndex) and prevLen: Lightbox.tsx lines 39-42 (sync, deps
\* [open, safeStartIndex]) and 45-48 (clamp, deps [open, images.length]),
\* then App.tsx lines 338-344
lightboxEffects(prevOpen, prevSafe, prevLen, v, len) ==
    LET safe   == clampIndex(v.startIndex, len)
        synced == IF v.open /\ (prevOpen # v.open \/ prevSafe # safe)
                  THEN safe ELSE v.index
        clamped == IF v.open /\ (prevOpen # v.open \/ prevLen # len)
                   THEN clampIndex(synced, len) ELSE synced
    IN  [open       |-> IF v.open /\ len = 0 THEN FALSE ELSE v.open,
         startIndex |-> IF v.open /\ v.startIndex >= len
                        THEN Max({0, len - 1}) ELSE v.startIndex,
         index      |-> clamped]

\* the lightbox state once the renders caused by a handler have settled:
\* the handler left v and the collection imgs
LightboxRenders(v, imgs) ==
    LET prevLen  == Len(doneImagesOf(images))
        prevSafe == clampIndex(lightboxIndex, prevLen)
        len      == Len(doneImagesOf(imgs))
        r1       == lightboxEffects(lightboxOpen, prevSafe, prevLen, v, len)
        r2       == lightboxEffects(v.open, clampIndex(v.startIndex, len), len,
                                    r1, len)
    IN  /\ lightboxOpen'  = r2.open
        /\ lightboxIndex' = r2.startIndex
        /\ index'         = r2.index

\* the lightbox state as the handlers find it
lightboxNow == [open |-> lightboxOpen, startIndex |-> lightboxIndex, index |-> index]

InitApp ==
    /\ images = <<>>
    /\ isProcessing = FALSE
    /\ config = DEFAULT_CONFIG
    /\ runs = {}
    /\ nextId = 1
    /\ liveUrls = {}
    /\ revokedUrls = {}
    /\ fileUrls = 0

Init ==
    /\ fmtCalled = FALSE
    /\ fmtDate = ClockDate
    /\ fmtFormat = EmptyString
    /\ fmtResult = EmptyString
    /\ exPc = "idle"
    /\ exExif = NoExif
    /\ exNow = ClockDate
    /\ exResult = [date |-> ClockDate, usedFallback |-> FALSE]
    /\ fsCalled = FALSE
    /\ fsFontSize = 1
    /\ fsWidth = 1
    /\ fsResult10 = 0
    /\ cvCalled = FALSE
    /\ cvIn = [cfg |-> CHOOSE c \in OverlayConfigs : TRUE,
               surface |-> CHOOSE sf \in OverlaySurfaces : TRUE,
               textWidth |-> 0]
    /\ cvDraws = << >>
    /\ cvOps = << >>
    /\ download = [pc |-> "idle", snap |-> << >>, k |-> 0, added |-> << >>,
                   fetchOk |-> FALSE]
    /\ emitted = [kind |-> "none", href |-> << >>, name |-> << >>,
                  entries |-> << >>, archive |-> << >>]
    /\ storage = [item |-> [kind |-> "missing", value |-> << >>],
                  fails |-> FALSE]
    /\ stLoaded = << >>
    /\ saveTimeout = 0
    /\ timers = {}
    /\ lightboxOpen = FALSE
    /\ lightboxIndex = 0
    /\ index = 0
    /\ pvCfg = DefaultOverlayConfig
    /\ pvTextWidth = 0
    /\ pvCtx = [shadow |-> NeutralShadow]
    /\ pvDraws = << >>
    /\ InitApp

\* handleFiles(files), lines 177-197, up to the first await
HandleFiles(files) ==
    LET validFiles == validFilesOf(files)
        n          == Len(validFiles)
        newImages  == [j \in 1 .. n |-> newImage(nextId + j - 1, validFiles[j])]
    IN  /\ nextId - 1 + n <= MaxItems
        /\ IF n = 0
           THEN UNCHANGED appVars
           ELSE /\ isProcessing' = TRUE
                /\ images' = images \o newImages
                /\ runs' = runs \cup
                      { [pc |-> "resolve", files |-> validFiles,
                         ids |-> [j \in 1 .. n |-> nextId + j - 1],
                         i |-> 1, cfg |-> config, exif |-> NoExif,
                         usedFallback |-> FALSE, timestamp |-> EmptyString] }
                /\ nextId' = nextId + n
                /\ UNCHANGED <<config, liveUrls, revokedUrls, fileUrls>>
        /\ UNCHANGED <<fmtVars, exVars, fsVars, cvVars, dlVars, stVars, tmVars, lbVars, pvVars>>

\* variant: the timestamp is formatted with the configuration of the moment
MetadataSettles_LiveConfig(run) ==
    /\ run.pc = "resolve"
    /\ \E exif \in PipelineExif, now \in {ClockDate} :
          LET res == extractImageMetadata(exif, now)
          IN  runs' = (runs \ {run}) \cup
                  { [run EXCEPT !.pc = "load", !.exif = exif,
                                !.usedFallback = res.usedFallback,
                                !.timestamp = formatDate(res.date, config.dateFormat)] }
    /\ fileUrls' = fileUrls + 1
    /\ UNCHANGED <<images, isProcessing, config, nextId, liveUrls, revokedUrls>>
    /\ UNCHANGED <<fmtVars, exVars, fsVars, cvVars, dlVars, stVars, tmVars, lbVars, pvVars>>

\* processImage lines 49-52 and 143-144: exifr.parse settles, the timestamp
\* is formatted and the image starts loading from a fresh object URL
MetadataSettles(run) ==
    /\ run.pc = "resolve"
    /\ \E exif \in PipelineExif, now \in {ClockDate} :
          LET res == extractImageMetadata(exif, now)
          IN  runs' = (runs \ {run}) \cup
                  { [run EXCEPT !.pc = "load", !.exif = exif,
                                !.usedFallback = res.usedFallback,
                                !.timestamp = formatDate(res.date, run.cfg.dateFormat)] }
    /\ fileUrls' = fileUrls + 1
    /\ UNCHANGED <<images, isProcessing, config, nextId, liveUrls, revokedUrls>>
    /\ UNCHANGED <<fmtVars, exVars, fsVars, cvVars, dlVars, stVars, tmVars, lbVars, pvVars>>

\* img.onerror (line 143), or img.onload with no 2D context (lines 58-62):
\* the promise rejects and the catch of lines 218-225 marks the item
ImageLoadFails(run) ==
    /\ run.pc = "load"
    /\ fileOf(run).content = "broken"
    /\ images' = markError(images, imageIdOf(run))
    /\ runs' = advance(runs, run)
    /\ isProcessing' = processingAfter(run, isProcessing)
    /\ UNCHANGED <<config, nextId, liveUrls, revokedUrls, fileUrls>>
    /\ UNCHANGED <<fmtVars, exVars, fsVars, cvVars, dlVars, stVars, tmVars, lbVars, pvVars>>

\* img.onload, lines 53-140: the overlay is drawn and canvas.toBlob is called
ImageLoads(run) ==
    /\ run.pc = "load"
    /\ runs' = (runs \ {run}) \cup {[run EXCEPT !.pc = "encode", !.exif = NoExif]}
    /\ UNCHANGED <<images, isProcessing, config, nextId, liveUrls,
                   revokedUrls, fileUrls>>
    /\ UNCHANGED <<fmtVars, exVars, fsVars, cvVars, dlVars, stVars, tmVars, lbVars, pvVars>>

\* the toBlob callback with a blob (lines 128-133), then lines 205-217
BlobReady(run) ==
    /\ run.pc = "encode"
    /\ fileOf(run).content = "valid"
    /\ liveUrls' = liveUrls \cup {ObjectUrl(imageIdOf(run))}
    /\ images' = markDone(images, imageIdOf(run), ObjectUrl(imageIdOf(run)),
                          run.timestamp, run.usedFallback)
    /\ runs' = advance(runs, run)
    /\ isProcessing' = processingAfter(run, isProcessing)
    /\ LightboxRenders(lightboxNow,
                       markDone(images, imageIdOf(run), ObjectUrl(imageIdOf(run)),
                                run.timestamp, run.usedFallback))
    /\ UNCHANGED <<config, nextId, revokedUrls, fileUrls>>
    /\ UNCHANGED <<fmtVars, exVars, fsVars, cvVars, dlVars, stVars, tmVars, pvVars>>

\* the toBlob callback with null (lines 134-136), then lines 218-225
BlobFails(run) ==
    /\ run.pc = "encode"
    /\ fileOf(run).content = "broken"
    /\ images' = markError(images, imageIdOf(run))
    /\ runs' = advance(runs, run)
    /\ isProcessing' = processingAfter(run, isProcessing)
    /\ UNCHANGED <<config, nextId, liveUrls, revokedUrls, fileUrls>>
    /\ UNCHANGED <<fmtVars, exVars, fsVars, cvVars, dlVars, stVars, tmVars, lbVars, pvVars>>

\* variant: the last item of the collection is skipped
urlsOf_SkipLast(imgs) ==
    { imgs[j].processedUrl :
        j \in { k \in DOMAIN imgs : k < Len(imgs) /\ imgs[k].processedUrl # EmptyString } }

\* URLs that images.forEach of lines 292-296 revokes
urlsOf(imgs) ==
    { imgs[j].processedUrl : j \in { k \in DOMAIN imgs : imgs[k].processedUrl # EmptyString } }

\* handleClearAll, lines 291-299 (the button exists while images.length > 0)
HandleClearAll ==
    /\ Len(images) > 0
    /\ liveUrls' = liveUrls \ urlsOf(images)
    /\ revokedUrls' = revokedUrls \cup urlsOf(images)
    /\ images' = <<>>
    /\ LightboxRenders([lightboxNow EXCEPT !.open = FALSE], <<>>)
    /\ UNCHANGED <<isProcessing, config, runs, nextId, fileUrls>>
    /\ UNCHANGED <<fmtVars, exVars, fsVars, cvVars, dlVars, stVars, tmVars, pvVars>>

\* App.tsx lines 317-325 and 572-575: a done item of the grid is clicked
OpenLightboxForId(imageId) ==
    LET done == doneImagesOf(images)
        hits == { k \in DOMAIN done : done[k].id = imageId }
    IN  /\ \E j \in DOMAIN images :
              images[j].id = imageId /\ images[j].status = "done"
        /\ hits # {}
        /\ LightboxRenders([lightboxNow EXCEPT !.startIndex = Min(hits) - 1,
                                               !.open = TRUE], images)
        /\ UNCHANGED <<appVars, fmtVars, exVars, fsVars, cvVars, dlVars,
                       stVars, tmVars, pvVars>>

\* Lightbox.tsx lines 67-70
goPrev(i, len) == IF len <= 1 THEN i ELSE (i - 1 + len) % len

\* variant: no wrap-around at the last image
goNext_NoWrap(i, len) == IF len <= 1 THEN i ELSE i + 1

\* Lightbox.tsx lines 72-75
goNext(i, len) == IF len <= 1 THEN i ELSE (i + 1) % len

Keys == {"Escape", "ArrowLeft", "ArrowRight", "Enter"}

\* Lightbox.tsx lines 77-85, handleKeyDown
HandleKeyDown(key) ==
    LET len == Len(doneImagesOf(images))
        v   == IF ~lightboxOpen THEN lightboxNow
               ELSE IF key = "Escape" THEN [lightboxNow EXCEPT !.open = FALSE]
               ELSE IF key = "ArrowLeft"
               THEN [lightboxNow EXCEPT !.index = goPrev(index, len)]
               ELSE IF key = "ArrowRight"
               THEN [lightboxNow EXCEPT !.index = goNext(index, len)]
               ELSE lightboxNow
    IN  /\ LightboxRenders(v, images)
        /\ UNCHANGED <<appVars, fmtVars, exVars, fsVars, cvVars, dlVars,
                       stVars, tmVars, pvVars>>

\* the previous / next buttons of the open lightbox (Lightbox.tsx 203-226)
NavButton(forward) ==
    LET len == Len(doneImagesOf(images))
    IN  /\ lightboxOpen
        /\ LightboxRenders([lightboxNow EXCEPT !.index =
                               IF forward THEN goNext(index, len)
                               ELSE goPrev(index, len)], images)
        /\ UNCHANGED <<appVars, fmtVars, exVars, fsVars, cvVars, dlVars,
                       stVars, tmVars, pvVars>>

\* onClose: the close button or the backdrop of the open lightbox
\* (App.tsx line 372)
OnClose ==
    /\ lightboxOpen
    /\ LightboxRenders([lightboxNow EXCEPT !.open = FALSE], images)
    /\ UNCHANGED <<appVars, fmtVars, exVars, fsVars, cvVars, dlVars,
                   stVars, tmVars, pvVars>>

\* timer handles in use at any one time
MaxTimers == 2

\* variant: the pending timer is not cancelled
timersAfterClear_NoClear(ts, handle) == ts

\* configStorage.ts line 82-84: if (saveTimeout) clearTimeout(saveTimeout)
timersAfterClear(ts, handle) ==
    IF handle # 0 THEN { t \in ts : t.id # handle } ELSE ts

\* configStorage.ts lines 81-89, debouncedSaveConfig(cfg): the pending
\* timer is cancelled and a new one is started whose callback saves cfg
DebouncedSaveConfig(cfg) ==
    LET kept == timersAfterClear(timers, saveTimeout)
        free == (1 .. MaxTimers) \ { t.id : t \in kept }
    IN  /\ free # {}
        /\ timers' = kept \cup { [id |-> Min(free), config |-> cfg] }
        /\ saveTimeout' = Min(free)

\* handleConfigChange, lines 167-170: setConfig(newConfig),
\* debouncedSaveConfig(newConfig)
HandleConfigChange(newConfig) ==
    /\ config' = newConfig
    /\ DebouncedSaveConfig(newConfig)
    /\ UNCHANGED <<images, isProcessing, runs, nextId, liveUrls,
                   revokedUrls, fileUrls>>
    /\ UNCHANGED <<fmtVars, exVars, fsVars, cvVars, dlVars, stVars, lbVars, pvVars>>

\* handleResetConfig, lines 172-175: setConfig(DEFAULT_CONFIG),
\* debouncedSaveConfig(DEFAULT_CONFIG)
HandleResetConfig ==
    /\ config' = DEFAULT_CONFIG
    /\ DebouncedSaveConfig(DEFAULT_CONFIG)
    /\ UNCHANGED <<images, isProcessing, runs, nextId, liveUrls,
                   revokedUrls, fileUrls>>
    /\ UNCHANGED <<fmtVars, exVars, fsVars, cvVars, dlVars, stVars, lbVars, pvVars>>

\* text typed into the custom format field
CustomTexts == { <<"h","h",":","m","m"," ","A">>, <<"D","D">> }

\* the (key, value) pairs the format section of the panel passes to
\* updateConfig: the two preset selects and the custom text field
SettingsInputs ==
    { <<"dateFormatPreset", d>> : d \in DATE_FORMAT_PRESETS }
    \cup { <<"timeFormatPreset", t>> : t \in TIME_FORMAT_PRESETS }
    \cup { <<"dateFormat", c>> : c \in CustomTexts }

\* SettingsPanel.tsx lines 168-179, updateConfig(key, value): the new
\* config handed to onChange
updateConfig(cfg, key, value) ==
    LET newConfig == [cfg EXCEPT ![key] = value]
    IN  IF key \in {"dateFormatPreset", "timeFormatPreset"} /\ ~cfg.useCustomFormat
        THEN LET datePreset == IF key = "dateFormatPreset" THEN value
                               ELSE cfg.dateFormatPreset
                 timePreset == IF key = "timeFormatPreset" THEN value
                               ELSE cfg.timeFormatPreset
             IN  [newConfig EXCEPT !.dateFormat = combineFormats(datePreset, timePreset)]
        ELSE newConfig

\* variant: switching the custom format off keeps the text
handleCustomFormatToggle_KeepText(cfg, useCustom) ==
    [cfg EXCEPT !.useCustomFormat = useCustom]

\* SettingsPanel.tsx lines 181-188, handleCustomFormatToggle(useCustom)
handleCustomFormatToggle(cfg, useCustom) ==
    LET newConfig == [cfg EXCEPT !.useCustomFormat = useCustom]
    IN  IF ~useCustom
        THEN [newConfig EXCEPT !.dateFormat =
                  combineFormats(cfg.dateFormatPreset, cfg.timeFormatPreset)]
        ELSE newConfig

\* a control of the format section is used (SettingsPanel.tsx 440-470): the
\* text field is rendered when useCustomFormat is set, the selects when not
UpdateConfig(key, value) ==
    /\ (key = "dateFormat") <=> config.useCustomFormat
    /\ HandleConfigChange(updateConfig(config, key, value))

\* the custom-format switch is clicked (SettingsPanel.tsx line 425)
CustomFormatToggle ==
    HandleConfigChange(handleCustomFormatToggle(config, ~config.useCustomFormat))

(***************************************************************************)
(* utils/configStorage.ts: loadConfig, saveConfig, migrateConfig, in a     *)
(* browser (window is defined).  The item under STORAGE_KEY is missing, or *)
(* a text; a text is empty, is not JSON, or is the JSON text of a value.   *)
(* An object read from JSON has a version and a config property or lacks   *)
(* them (<<>>: missing, <<v>>: present with value v); a stored config is a *)
(* record of the fields it has.                                            *)
(***************************************************************************)
CONFIG_VERSION == 1

ItemMissing  == [kind |-> "missing", value |-> << >>]
ItemEmpty    == [kind |-> "empty",   value |-> << >>]
ItemNotJson  == [kind |-> "notJson", value |-> << >>]
ItemJson(v)  == [kind |-> "json",    value |-> <<v>>]

JsonNull   == [type |-> "null",   version |-> << >>, config |-> << >>]
JsonNumber == [type |-> "number", version |-> << >>, config |-> << >>]
JsonObject(version, cfg) ==
    [type |-> "object", version |-> version, config |-> cfg]

\* { ...a, ...b }: the fields of b over the fields of a
spread(a, b) ==
    [f \in DOMAIN a \cup DOMAIN b |-> IF f \in DOMAIN b THEN b[f] ELSE a[f]]

\* { ...DEFAULT_CONFIG, ...stored.config }; spreading undefined adds nothing
migrateConfig(stored) ==
    IF stored.config = << >> THEN DEFAULT_CONFIG
    ELSE spread(DEFAULT_CONFIG, stored.config[1])

\* variant: the stored config is returned without the defaults
loadConfig_NoMerge(st) ==
    IF st.fails THEN DEFAULT_CONFIG
    ELSE IF st.item.kind \in {"missing", "empty", "notJson"} THEN DEFAULT_CONFIG
    ELSE LET parsed == st.item.value[1]
         IN  IF parsed.type = "null" THEN DEFAULT_CONFIG
             ELSE IF parsed.config = << >> THEN DEFAULT_CONFIG
             ELSE parsed.config[1]

\* loadConfig: getItem throwing, JSON.parse throwing and reading a property
\* of null all end in the catch
loadConfig(st) ==
    IF st.fails THEN DEFAULT_CONFIG
    ELSE IF st.item.kind \in {"missing", "empty"} THEN DEFAULT_CONFIG
    ELSE IF st.item.kind = "notJson" THEN DEFAULT_CONFIG
    ELSE LET parsed == st.item.value[1]
         IN  IF parsed.type = "null" THEN DEFAULT_CONFIG
             ELSE IF parsed.version # <<CONFIG_VERSION>>
             THEN migrateConfig(parsed)
             ELSE IF parsed.config = << >> THEN DEFAULT_CONFIG
             ELSE spread(DEFAULT_CONFIG, parsed.config[1])

\* saveConfig: setItem(STORAGE_KEY, JSON.stringify({version, config})); a
\* throwing setItem is caught
saveConfig(st, cfg) ==
    IF st.fails THEN st
    ELSE [st EXCEPT !.item = ItemJson(JsonObject(<<CONFIG_VERSION>>, <<cfg>>))]

\* configs found in storage: written by this version, by another version,
\* with fields missing, with a field this version does not know
StoredConfigs ==
    { CustomConfig,
      [fontSize |-> 48],
      [dateFormat |-> <<"D","D">>, useCustomFormat |-> TRUE, position |-> "topLeft"],
      [fontSize |-> 200, opacity |-> 50],
      [x \in {} |-> 0] }

StoredVersions == { << >>, <<0>>, <<CONFIG_VERSION>>, <<2>> }

StoredItems ==
    { ItemMissing, ItemEmpty, ItemNotJson, ItemJson(JsonNull), ItemJson(JsonNumber) }
    \cup { ItemJson(JsonObject(v, c)) :
             v \in StoredVersions, c \in { << >> } \cup { <<sc>> : sc \in StoredConfigs } }

\* the item is changed, or access to the storage starts or stops throwing,
\* outside this page
StorageChanges ==
    /\ \E item \in StoredItems, fails \in BOOLEAN :
          storage' = [item |-> item, fails |-> fails]
    /\ UNCHANGED stLoaded
    /\ UNCHANGED <<fmtVars, exVars, fsVars, cvVars, appVars, dlVars, tmVars, lbVars, pvVars>>

\* App.tsx lines 161-164: on mount, setConfig(loadConfig())
LoadConfigOnMount ==
    /\ stLoaded' = <<loadConfig(storage)>>
    /\ config' = loadConfig(storage)
    /\ UNCHANGED storage
    /\ UNCHANGED <<images, isProcessing, runs, nextId, liveUrls,
                   revokedUrls, fileUrls>>
    /\ UNCHANGED <<fmtVars, exVars, fsVars, cvVars, dlVars, tmVars, lbVars, pvVars>>

\* the timer of debouncedSaveConfig fires: saveConfig(cfg)
SaveConfigCall(cfg) ==
    /\ storage' = saveConfig(storage, cfg)
    /\ UNCHANGED stLoaded
    /\ UNCHANGED <<fmtVars, exVars, fsVars, cvVars, appVars, dlVars, tmVars, lbVars, pvVars>>

\* the delay of a pending timer has elapsed (configStorage.ts lines 85-88):
\* saveConfig(config); saveTimeout = null
SaveTimerFires(t) ==
    /\ t \in timers
    /\ storage' = saveConfig(storage, t.config)
    /\ saveTimeout' = 0
    /\ timers' = timers \ {t}
    /\ UNCHANGED stLoaded
    /\ UNCHANGED <<fmtVars, exVars, fsVars, cvVars, appVars, dlVars, lbVars, pvVars>>

\* localStorage starts or stops throwing (quota, privacy settings)
StorageAccessChanges ==
    /\ storage' = [storage EXCEPT !.fails = ~storage.fails]
    /\ UNCHANGED stLoaded
    /\ UNCHANGED <<fmtVars, exVars, fsVars, cvVars, appVars, dlVars, tmVars, lbVars, pvVars>>

(***************************************************************************)
(* App.tsx: handleDownloadSingle (lines 259-264) and handleDownloadAll     *)
(* (lines 266-289).  One handleDownloadAll invocation is followed at a     *)
(* time; its locals (doneImages, the loop position, the files added to the *)
(* zip) are the fields of download.  fetch resolves its blob URL when it   *)
(* is called, so whether it succeeds is fixed at the call.                 *)
(***************************************************************************)
NoDownload ==
    [pc |-> "idle", snap |-> << >>, k |-> 0, added |-> << >>, fetchOk |-> FALSE]

NoEmit == [kind |-> "none", href |-> << >>, name |-> << >>, entries |-> << >>,
           archive |-> << >>]

ZipUrl  == <<"blob:", "zip">>
ZipName == <<"m","e","t","a","s","t","a","m","p","_","i","m","a","g","e","s",
             ".","z","i","p">>

\* name.replace(/\.[^/.]+$/, ""): a final dot followed by one or more
\* characters other than "/" and "." is removed with what follows it
stripExtension(name) ==
    LET dots == { i \in DOMAIN name : name[i] = "." }
    IN  IF dots = {} THEN name
        ELSE LET d == Max(dots)
             IN  IF d < Len(name) /\ \A j \in (d + 1) .. Len(name) : name[j] # "/"
                 THEN SubSeq(name, 1, d - 1)
                 ELSE name

\* `stamped_${image.originalName.replace(/\.[^/.]+$/, "")}.png`
downloadName(originalName) ==
    <<"s","t","a","m","p","e","d","_">> \o stripExtension(originalName)
        \o <<".","p","n","g">>

\* handleDownloadSingle: the link that is clicked
singleLink(image) ==
    [kind |-> "single", href |-> image.processedUrl,
     name |-> downloadName(image.originalName), entries |-> << >>,
     archive |-> << >>]

\* handleDownloadAll, lines 266-278, up to the first await
HandleDownloadAll ==
    /\ download.pc = "idle"
    /\ LET doneImages == doneImagesOf(images)
       IN  IF Len(doneImages) = 0
           THEN UNCHANGED dlVars
           ELSE IF Len(doneImages) = 1
           THEN /\ emitted' = singleLink(doneImages[1])
                /\ UNCHANGED download
           ELSE /\ download' =
                      [pc |-> "fetch", snap |-> doneImages, k |-> 1,
                       added |-> << >>,
                       fetchOk |-> doneImages[1].processedUrl \in liveUrls]
                /\ UNCHANGED emitted
    /\ UNCHANGED <<fmtVars, exVars, fsVars, cvVars, appVars, stVars, tmVars, lbVars, pvVars>>

\* lines 278-282: fetch and response.blob() settle; the file is added to the
\* zip and the next fetch is called, or zip.generateAsync after the last; a
\* rejected fetch ends the invocation
FetchSettles ==
    /\ download.pc = "fetch"
    /\ IF ~download.fetchOk
       THEN download' = NoDownload
       ELSE LET image  == download.snap[download.k]
                added2 == Append(download.added,
                                 [filename |-> downloadName(image.originalName),
                                  url |-> image.processedUrl])
            IN  IF download.k < Len(download.snap)
                THEN download' =
                        [download EXCEPT
                           !.k = download.k + 1, !.added = added2,
                           !.fetchOk =
                              download.snap[download.k + 1].processedUrl \in liveUrls]
                ELSE download' =
                        [download EXCEPT
                           !.pc = "generate", !.added = added2, !.fetchOk = FALSE]
    /\ UNCHANGED emitted
    /\ UNCHANGED <<fmtVars, exVars, fsVars, cvVars, appVars, stVars, tmVars, lbVars, pvVars>>

\* the files of the zip after the zip.file(filename, blob) calls of line
\* 282: a zip holds one file per name, a later call with the same name
\* replaces the earlier file
zipFiles(added) ==
    [n \in { added[k].filename : k \in DOMAIN added } |->
        added[Max({ k \in DOMAIN added : added[k].filename = n })].url]

\* lines 284-288: the archive is generated and its link is clicked
ArchiveReady ==
    /\ download.pc = "generate"
    /\ emitted' = [kind |-> "zip", href |-> ZipUrl, name |-> ZipName,
                   entries |-> download.added,
                   archive |-> zipFiles(download.added)]
    /\ download' = NoDownload
    /\ UNCHANGED <<fmtVars, exVars, fsVars, cvVars, appVars, stVars, tmVars, lbVars, pvVars>>

(***************************************************************************)
(* components/OverlayPreview.tsx: the effect of lines 73-147 draws the     *)
(* sample image and the timestamp on the one canvas of the component, on   *)
(* mount and whenever config changes.  The context of that canvas keeps    *)
(* its attributes from one drawing to the next.                            *)
(***************************************************************************)
\* lines 85-88: Math.max(Math.min(config.fontSize, canvas.width / 10), 24),
\* in tenths of a pixel; the canvas is SAMPLE_IMAGE_WIDTH wide (line 152)
previewFontSize10(cfg) ==
    Max({ Min({cfg.fontSize * WIDTH_DIVISOR, SAMPLE_IMAGE_WIDTH}),
          MIN_FONT_PX * WIDTH_DIVISOR })

\* lines 98-115, x
previewX10(cfg, textWidth) ==
    CASE cfg.position = "bottomRight" ->
            (SAMPLE_IMAGE_WIDTH - textWidth - cfg.offsetX) * WIDTH_DIVISOR
      [] cfg.position = "bottomLeft"  -> cfg.offsetX * WIDTH_DIVISOR
      [] cfg.position = "topRight"    ->
            (SAMPLE_IMAGE_WIDTH - textWidth - cfg.offsetX) * WIDTH_DIVISOR
      [] cfg.position = "topLeft"     -> cfg.offsetX * WIDTH_DIVISOR

\* lines 98-115, y
previewY10(cfg) ==
    CASE cfg.position = "bottomRight" ->
            (SAMPLE_IMAGE_HEIGHT - cfg.offsetY) * WIDTH_DIVISOR
      [] cfg.position = "bottomLeft"  ->
            (SAMPLE_IMAGE_HEIGHT - cfg.offsetY) * WIDTH_DIVISOR
      [] cfg.position = "topRight"    ->
            previewFontSize10(cfg) + cfg.offsetY * WIDTH_DIVISOR
      [] cfg.position = "topLeft"     ->
            previewFontSize10(cfg) + cfg.offsetY * WIDTH_DIVISOR

\* lines 117-129: the context after "Apply drop shadow if enabled"
previewShadowApplied(ctx, cfg) ==
    IF cfg.dropShadowEnabled
    THEN [ctx EXCEPT !.shadow = [blur    |-> cfg.dropShadowBlur,
                                 offsetX |-> cfg.dropShadowOffsetX,
                                 offsetY |-> cfg.dropShadowOffsetY,
                                 color   |-> cfg.dropShadowColor]]
    ELSE [ctx EXCEPT !.shadow = [blur |-> 0, offsetX |-> 0, offsetY |-> 0,
                                 color |-> TransparentColor]]

\* variant: the shadow is not reset before the fill
previewShadowReset_Missing(ctx) == ctx

\* lines 139-142: the context after "Reset shadow for fill"
previewShadowReset(ctx) ==
    [ctx EXCEPT !.shadow.blur = 0, !.shadow.offsetX = 0, !.shadow.offsetY = 0]

\* lines 131-145: the text draw calls of one run of the effect on context
\* ctx, each with the font size and the shadow in force at the call
previewDraws(ctx, cfg, textWidth) ==
    LET ctx1   == previewShadowApplied(ctx, cfg)
        ctx2   == previewShadowReset(ctx1)
        stroke == IF cfg.strokeWidth > 0
                  THEN << [op |-> "strokeText", x10 |-> previewX10(cfg, textWidth),
                           y10 |-> previewY10(cfg), shadow |-> ctx1.shadow,
                           font10 |-> previewFontSize10(cfg)] >>
                  ELSE << >>
    IN  stroke \o << [op |-> "fillText", x10 |-> previewX10(cfg, textWidth),
                      y10 |-> previewY10(cfg), shadow |-> ctx2.shadow,
                      font10 |-> previewFontSize10(cfg)] >>

\* the context the effect leaves behind
previewCtxAfter(ctx, cfg) == previewShadowReset(previewShadowApplied(ctx, cfg))

\* one run of the effect for config cfg
PreviewEffect(cfg) ==
    \E textWidth \in TextWidths :
        /\ pvTextWidth' = textWidth
        /\ pvDraws' = previewDraws(pvCtx, cfg, textWidth)
        /\ pvCtx' = previewCtxAfter(pvCtx, cfg)

\* the component mounts: the effect runs for the first time
PreviewMounts ==
    /\ pvDraws = << >>
    /\ pvCfg' = pvCfg
    /\ PreviewEffect(pvCfg)
    /\ UNCHANGED <<fmtVars, exVars, fsVars, appVars, cvVars, dlVars, stVars,
                   tmVars, lbVars>>

\* a setting changes: the component gets a new config and the effect runs
PreviewConfigChanges(key, value) ==
    /\ pvDraws # << >>
    /\ pvCfg[key] # value
    /\ pvCfg' = [pvCfg EXCEPT ![key] = value]
    /\ PreviewEffect([pvCfg EXCEPT ![key] = value])
    /\ UNCHANGED <<fmtVars, exVars, fsVars, appVars, cvVars, dlVars, stVars,
                   tmVars, lbVars>>

Next ==
    \/ \E files \in Submissions : HandleFiles(files)
    \/ \E run \in runs : MetadataSettles(run)
    \/ \E run \in runs : ImageLoadFails(run)
    \/ \E run \in runs : ImageLoads(run)
    \/ \E run \in runs : BlobReady(run)
    \/ \E run \in runs : BlobFails(run)
    \/ HandleClearAll
    \/ \E c \in SampleConfigs : HandleConfigChange(c)
    \/ HandleResetConfig

Spec == Init /\ [][Next]_vars

\* one awaited call of some running invocation settles
PipelineStep ==
    \E run \in runs :
        \/ MetadataSettles(run)
        \/ ImageLoadFails(run)
        \/ ImageLoads(run)
        \/ BlobReady(run)
        \/ BlobFails(run)

\* the submissions, clear-all and the pipeline, where every awaited call
\* (exifr.parse, the image load, canvas.toBlob) eventually settles
NextLive ==
    \/ \E files \in Submissions : HandleFiles(files)
    \/ PipelineStep
    \/ HandleClearAll

SpecLive == Init /\ [][NextLive]_vars /\ WF_vars(PipelineStep)

NextFormat == FormatDateCall
SpecFormat == Init /\ [][NextFormat]_vars

NextResolve == ExtractCall
SpecResolve == Init /\ [][NextResolve]_vars

NextFont == FontSizeCall
SpecFont == Init /\ [][NextFont]_vars

\* submissions, the pipeline, clear-all and download-all; the configuration,
\* which the download handlers do not read, stays as it is
NextDownload ==
    \/ \E files \in Submissions : HandleFiles(files)
    \/ \E run \in runs : MetadataSettles(run)
    \/ \E run \in runs : ImageLoadFails(run)
    \/ \E run \in runs : ImageLoads(run)
    \/ \E run \in runs : BlobReady(run)
    \/ \E run \in runs : BlobFails(run)
    \/ HandleClearAll
    \/ HandleDownloadAll
    \/ FetchSettles
    \/ ArchiveReady
SpecDownload == Init /\ [][NextDownload]_vars

NextStorage ==
    \/ StorageChanges
    \/ LoadConfigOnMount
    \/ \E cfg \in SampleConfigs : SaveConfigCall(cfg)
SpecStorage == Init /\ [][NextStorage]_vars

\* the grid, the pipeline and the lightbox
NextLightbox ==
    \/ \E files \in Submissions : HandleFiles(files)
    \/ PipelineStep
    \/ HandleClearAll
    \/ \E id \in 1 .. MaxItems : OpenLightboxForId(id)
    \/ \E key \in Keys : HandleKeyDown(key)
    \/ \E forward \in BOOLEAN : NavButton(forward)
    \/ OnClose
SpecLightbox == Init /\ [][NextLightbox]_vars

\* the settings panel, the debounced save and the storage
NextSettings ==
    \/ \E kv \in SettingsInputs : UpdateConfig(kv[1], kv[2])
    \/ CustomFormatToggle
    \/ HandleResetConfig
    \/ \E t \in timers : SaveTimerFires(t)
    \/ StorageAccessChanges
SpecSettings == Init /\ [][NextSettings]_vars

NextPreview ==
    \/ PreviewMounts
    \/ \E key \in DOMAIN OverlayFieldValues :
          \E value \in OverlayFieldValues[key] : PreviewConfigChanges(key, value)
SpecPreview == Init /\ [][NextPreview]_vars

NextOverlay == DrawOverlayCall
SpecOverlay == Init /\ [][NextOverlay]_vars

(***************************************************************************)
(* Format engine: what a format string denotes, token by token.            *)
(* The format is read left to right; at each position the longest token    *)
(* of the vocabulary that starts there is taken, anything else is literal. *)
(***************************************************************************)
TokenVocabulary ==
    << <<"Y","Y","Y","Y">>, <<"M","M","M","M">>, <<"M","M","M">>, <<"M","M">>,
       <<"D","D">>, <<"H","H">>, <<"h","h">>, <<"m","m">>, <<"s","s">>, <<"A">> >>

SeparatorChars == {"-", "/", ".", " ", ":", ","}

TwoDigits(n) == <<Digit(n \div 10), Digit(n % 10)>>

FourDigits(n) ==
    <<Digit(n \div 1000), Digit((n \div 100) % 10), Digit((n \div 10) % 10), Digit(n % 10)>>

\* the field of the timestamp that token k stands for
TokenField(k, date) ==
    CASE k = 1  -> FourDigits(date.year)
      [] k = 2  -> MONTH_NAMES[date.month + 1]
      [] k = 3  -> SubSeq(MONTH_NAMES[date.month + 1], 1, 3)
      [] k = 4  -> TwoDigits(date.month + 1)
      [] k = 5  -> TwoDigits(date.day)
      [] k = 6  -> TwoDigits(date.hours)
      [] k = 7  -> TwoDigits(IF date.hours \in {0, 12} THEN 12 ELSE date.hours % 12)
      [] k = 8  -> TwoDigits(date.minutes)
      [] k = 9  -> TwoDigits(date.seconds)
      [] k = 10 -> IF date.hours < 12 THEN <<"A","M">> ELSE <<"P","M">>

\* the token that starts at position i of s (0: none), longest first
TokenAt(s, i) ==
    LET ks == { k \in DOMAIN TokenVocabulary :
                  /\ i + Len(TokenVocabulary[k]) - 1 <= Len(s)
                  /\ SubSeq(s, i, i + Len(TokenVocabulary[k]) - 1) = TokenVocabulary[k] }
    IN  IF ks = {} THEN 0 ELSE Min(ks)

RECURSIVE RenderFrom(_, _, _)
RenderFrom(s, i, date) ==
    IF i > Len(s) THEN <<>>
    ELSE LET k == TokenAt(s, i)
         IN  IF k = 0
             THEN <<s[i]>> \o RenderFrom(s, i + 1, date)
             ELSE TokenField(k, date) \o RenderFrom(s, i + Len(TokenVocabulary[k]), date)

ExpectedRender(date, format) == RenderFrom(format, 1, date)

\* the token kinds of s in order of occurrence, and its literal characters
RECURSIVE TokensFrom(_, _)
TokensFrom(s, i) ==
    IF i > Len(s) THEN <<>>
    ELSE LET k == TokenAt(s, i)
         IN  IF k = 0 THEN TokensFrom(s, i + 1)
             ELSE <<k>> \o TokensFrom(s, i + Len(TokenVocabulary[k]))

RECURSIVE LiteralsFrom(_, _)
LiteralsFrom(s, i) ==
    IF i > Len(s) THEN <<>>
    ELSE LET k == TokenAt(s, i)
         IN  IF k = 0 THEN <<s[i]>> \o LiteralsFrom(s, i + 1)
             ELSE LiteralsFrom(s, i + Len(TokenVocabulary[k]))

\* built from the vocabulary and separators only, each token kind at most once
VocabularyOnce(format) ==
    LET toks == TokensFrom(format, 1)
        lits == LiteralsFrom(format, 1)
    IN  /\ \A a, b \in DOMAIN toks : a # b => toks[a] # toks[b]
        /\ \A a \in DOMAIN lits : lits[a] \in SeparatorChars

\* C1: for every timestamp and every format built only from the token
\* vocabulary and separator characters with each token kind at most once
\* (every date-preset/time-preset combination among them), formatDate returns
\* the format with each token replaced by its field and all else unchanged.
C1_FormatMatchesTokens ==
    (fmtCalled /\ VocabularyOnce(fmtFormat))
        => fmtResult = ExpectedRender(fmtDate, fmtFormat)

\* the format rendered left to right, longest token first, each token kind
\* replaced at its first occurrence only and copied as text afterwards
RECURSIVE OnceFrom(_, _, _, _)
OnceFrom(s, i, date, used) ==
    IF i > Len(s) THEN <<>>
    ELSE LET k == TokenAt(s, i)
         IN  IF k = 0
             THEN <<s[i]>> \o OnceFrom(s, i + 1, date, used)
             ELSE (IF k \in used THEN TokenVocabulary[k] ELSE TokenField(k, date))
                  \o OnceFrom(s, i + Len(TokenVocabulary[k]), date, used \cup {k})

HasRepeatedToken(format) ==
    LET toks == TokensFrom(format, 1)
    IN  \E a, b \in DOMAIN toks : a # b /\ toks[a] = toks[b]

\* C13: when a token occurs more than once in the format, formatDate
\* replaces only its leftmost occurrence by the value and leaves every
\* later occurrence of that token in the output as literal text.
C13_TokenReplacedOnce ==
    (fmtCalled /\ HasRepeatedToken(fmtFormat))
        => fmtResult = OnceFrom(fmtFormat, 1, fmtDate, {})

\* built from MMMM, MMM, MM and separators only, each at most once
MonthTokensOnly(format) ==
    LET toks == TokensFrom(format, 1)
    IN  /\ VocabularyOnce(format)
        /\ toks # <<>>
        /\ \A a \in DOMAIN toks : toks[a] \in {2, 3, 4}

\* C14: in every format mixing MMMM, MMM and MM, for every month, an
\* occurrence of MMMM renders as the full month name and an occurrence of
\* MMM as the abbreviated name, never as the output of a shorter token
\* followed by leftover M characters.
C14_LongestTokenFirst ==
    (fmtCalled /\ MonthTokensOnly(fmtFormat))
        => fmtResult = ExpectedRender(fmtDate, fmtFormat)

\* lits occurs in out, from position o on, as a subsequence
RECURSIVE IsSubsequence(_, _, _, _)
IsSubsequence(lits, a, out, o) ==
    IF a > Len(lits) THEN TRUE
    ELSE IF o > Len(out) THEN FALSE
    ELSE IF out[o] = lits[a] THEN IsSubsequence(lits, a + 1, out, o + 1)
    ELSE IsSubsequence(lits, a, out, o + 1)

\* C15: every character of the format that is not part of a token
\* occurrence appears unchanged and in order in the output of formatDate,
\* and a format containing no token is returned unchanged.
C15_LiteralsPassThrough ==
    fmtCalled =>
        /\ IsSubsequence(LiteralsFrom(fmtFormat, 1), 1, fmtResult, 1)
        /\ TokensFrom(fmtFormat, 1) = <<>> => fmtResult = fmtFormat

(***************************************************************************)
(* Metadata resolver                                                       *)
(***************************************************************************)
TagPriority == <<"DateTimeOriginal", "CreateDate", "ModifyDate">>

\* the positions in the priority order of the tags exifr.parse delivered
PresentTags(exif) ==
    { k \in DOMAIN TagPriority : exif.kind = "data" /\ exif[TagPriority[k]] # Absent }

\* C2: extractImageMetadata returns the first field present in the order
\* DateTimeOriginal, CreateDate, ModifyDate, with usedFallback = false; a
\* lower-priority field is used only when every higher one is absent.
C2_FirstPresentFieldWins ==
    (exPc = "returned" /\ PresentTags(exExif) # {})
        => LET k == Min(PresentTags(exExif))
           IN  /\ exResult.date = exExif[TagPriority[k]][1]
               /\ exResult.usedFallback = FALSE
               /\ \A j \in PresentTags(exExif) :
                     exResult.date = exExif[TagPriority[j]][1]
                        => \/ j = k
                           \/ exExif[TagPriority[j]] = exExif[TagPriority[k]]

\* only CreateDate is present and its value is returned, not as a fallback
C2_Witness ==
    /\ exPc = "returned"
    /\ exExif = ExifData(Absent, Tag(CreateDate2), Absent)
    /\ exResult = [date |-> CreateDate2, usedFallback |-> FALSE]

(***************************************************************************)
(* Effective font size                                                     *)
(***************************************************************************)
\* C10 as stated: the effective size is never below 24, never above
\* surfaceWidth / 10, and equals the configured size whenever that lies
\* between the two bounds.
C10_ClampedBetweenBounds ==
    fsCalled =>
        /\ fsResult10 >= MIN_FONT_PX * WIDTH_DIVISOR
        /\ fsResult10 <= fsWidth
        /\ (/\ fsFontSize * WIDTH_DIVISOR >= MIN_FONT_PX * WIDTH_DIVISOR
            /\ fsFontSize * WIDTH_DIVISOR <= fsWidth)
              => fsResult10 = fsFontSize * WIDTH_DIVISOR

\* C10 amended: the effective size is never below 24; it is never above
\* surfaceWidth / 10 unless surfaceWidth / 10 < 24, in which case it is
\* exactly 24; and it equals the configured size whenever that lies between
\* 24 and surfaceWidth / 10.
C10_ClampedLowerBoundWins ==
    fsCalled =>
        /\ fsResult10 >= MIN_FONT_PX * WIDTH_DIVISOR
        /\ fsWidth >= MIN_FONT_PX * WIDTH_DIVISOR => fsResult10 <= fsWidth
        /\ fsWidth < MIN_FONT_PX * WIDTH_DIVISOR
              => fsResult10 = MIN_FONT_PX * WIDTH_DIVISOR
        /\ (/\ fsFontSize * WIDTH_DIVISOR >= MIN_FONT_PX * WIDTH_DIVISOR
            /\ fsFontSize * WIDTH_DIVISOR <= fsWidth)
              => fsResult10 = fsFontSize * WIDTH_DIVISOR

\* a narrow surface (width / 10 < 24) on which the lower bound has won
C10_Witness ==
    /\ fsCalled
    /\ fsWidth < MIN_FONT_PX * WIDTH_DIVISOR
    /\ fsFontSize * WIDTH_DIVISOR > fsWidth
    /\ fsResult10 = MIN_FONT_PX * WIDTH_DIVISOR

\* C11 as stated: on every surface with surfaceWidth / 10 >= 24 the effective
\* font size is min(configured size, surfaceWidth / 10), for every configured
\* size; and a configured size of 500 on a 240-pixel-wide surface yields 24.
C11_LowerBoundOnlyOnNarrow ==
    fsCalled =>
        /\ fsWidth >= MIN_FONT_PX * WIDTH_DIVISOR
              => fsResult10 = Min({fsFontSize * WIDTH_DIVISOR, fsWidth})
        /\ (fsFontSize = 500 /\ fsWidth = 240)
              => fsResult10 = 24 * WIDTH_DIVISOR

\* C11 amended: on every surface with surfaceWidth / 10 >= 24 the effective
\* font size is min(configured size, surfaceWidth / 10) for every configured
\* size of at least 24, and 24 for every configured size below 24; and a
\* configured size of 500 on a 240-pixel-wide surface yields 24.
C11_LowerBoundOnNarrowOrSmall ==
    fsCalled =>
        /\ (/\ fsWidth >= MIN_FONT_PX * WIDTH_DIVISOR
            /\ fsFontSize >= MIN_FONT_PX)
              => fsResult10 = Min({fsFontSize * WIDTH_DIVISOR, fsWidth})
        /\ fsFontSize < MIN_FONT_PX
              => fsResult10 = MIN_FONT_PX * WIDTH_DIVISOR
        /\ (fsFontSize = 500 /\ fsWidth = 240)
              => fsResult10 = 24 * WIDTH_DIVISOR

\* size 500 on a 240-pixel-wide surface has been evaluated
C11_Witness ==
    /\ fsCalled
    /\ fsFontSize = 500
    /\ fsWidth = 240
    /\ fsResult10 = 24 * WIDTH_DIVISOR

(***************************************************************************)
(* Overlay compositor                                                      *)
(***************************************************************************)
EffectiveFontSize10 ==
    LET upper == Min({cvIn.cfg.fontSize * 10, cvIn.surface.width})
    IN  IF upper < 240 THEN 240 ELSE upper

\* C12: for every surface size, text width, offsets and position the draw
\* anchor is x = surfaceWidth - w - offsetX for the right positions and
\* x = offsetX for the left ones, y = surfaceHeight - offsetY for the bottom
\* positions and y = effectiveFontSize + offsetY for the top ones; the stroke
\* and the fill use the same anchor.
C12_DrawAnchor ==
    cvCalled =>
       \A k \in DOMAIN cvDraws :
          /\ cvIn.cfg.position \in {"topRight", "bottomRight"} =>
                cvDraws[k].x10 =
                   (cvIn.surface.width - cvIn.textWidth - cvIn.cfg.offsetX) * 10
          /\ cvIn.cfg.position \in {"topLeft", "bottomLeft"} =>
                cvDraws[k].x10 = cvIn.cfg.offsetX * 10
          /\ cvIn.cfg.position \in {"bottomLeft", "bottomRight"} =>
                cvDraws[k].y10 = (cvIn.surface.height - cvIn.cfg.offsetY) * 10
          /\ cvIn.cfg.position \in {"topLeft", "topRight"} =>
                cvDraws[k].y10 = EffectiveFontSize10 + cvIn.cfg.offsetY * 10

\* a 1000 x 1000 surface, bottomRight, offsets of 20, stroke and fill drawn
C12_Witness ==
    /\ cvCalled
    /\ cvIn.cfg.position = "bottomRight"
    /\ cvIn.surface.width = 1000 /\ cvIn.surface.height = 1000
    /\ cvIn.cfg.offsetX = 20 /\ cvIn.cfg.offsetY = 20
    /\ cvIn.textWidth = 300
    /\ Len(cvDraws) = 2
    /\ cvDraws[1].op = "strokeText" /\ cvDraws[2].op = "fillText"
    /\ cvDraws[1].x10 = 6800 /\ cvDraws[2].x10 = 6800

\* the fillText call of the drawing (the last call)
FillDraw == cvDraws[Len(cvDraws)]

\* C19 as stated: when the fill is drawn the shadow blur and offsets are 0
\* and the shadow colour is transparent, for every configuration.
C19_FillShadowNeutral ==
    cvCalled =>
        /\ FillDraw.op = "fillText"
        /\ FillDraw.shadow.blur = 0
        /\ FillDraw.shadow.offsetX = 0
        /\ FillDraw.shadow.offsetY = 0
        /\ FillDraw.shadow.color = TransparentColor

\* C19 amended: when the fill is drawn the shadow blur and offsets are 0, for
\* every configuration, with or without shadow, with or without stroke; the
\* shadow colour is transparent when the shadow is disabled and is still the
\* configured shadow colour when it is enabled; in both cases the fill
\* draws no shadow.
C19_FillDrawsNoShadow ==
    cvCalled =>
        /\ FillDraw.op = "fillText"
        /\ FillDraw.shadow.blur = 0
        /\ FillDraw.shadow.offsetX = 0
        /\ FillDraw.shadow.offsetY = 0
        /\ FillDraw.shadow.color =
              IF cvIn.cfg.dropShadowEnabled THEN cvIn.cfg.dropShadowColor
              ELSE TransparentColor
        /\ ~CastsShadow(FillDraw.shadow)

\* shadow enabled, the stroke was drawn with its shadow, and the fill was
\* drawn with blur and offsets reset and the shadow colour still set
C19_Witness ==
    /\ cvCalled
    /\ cvIn.cfg.dropShadowEnabled
    /\ Len(cvDraws) = 2
    /\ CastsShadow(cvDraws[1].shadow)
    /\ cvDraws[2].op = "fillText"
    /\ cvDraws[2].shadow.blur = 0
    /\ cvDraws[2].shadow.color = ShadowBlack

\* the configured shadow would be visible on a draw call
ConfiguredShadowVisible ==
    /\ cvIn.cfg.dropShadowEnabled
    /\ cvIn.cfg.dropShadowColor # TransparentColor
    /\ \/ cvIn.cfg.dropShadowBlur # 0
       \/ cvIn.cfg.dropShadowOffsetX # 0
       \/ cvIn.cfg.dropShadowOffsetY # 0

\* the draw calls made with the configured shadow parameters active
ShadowedDraws ==
    { k \in DOMAIN cvDraws :
        /\ CastsShadow(cvDraws[k].shadow)
        /\ cvDraws[k].shadow.blur = cvIn.cfg.dropShadowBlur
        /\ cvDraws[k].shadow.offsetX = cvIn.cfg.dropShadowOffsetX
        /\ cvDraws[k].shadow.offsetY = cvIn.cfg.dropShadowOffsetY
        /\ cvDraws[k].shadow.color = cvIn.cfg.dropShadowColor }

\* C20: whenever the shadow is enabled, exactly one text draw call is made
\* with the configured shadow parameters active, for every strokeWidth >= 0,
\* 0 included.
C20_OneShadowedDraw ==
    (cvCalled /\ ConfiguredShadowVisible) => Cardinality(ShadowedDraws) = 1

(***************************************************************************)
(* Batch orchestrator                                                      *)
(***************************************************************************)
Terminal(item) == item.status \in {"done", "error"}

FileNamed(name) == CHOOSE f \in FilePool : f.name = name

\* the WorkItem a run is working on, if it is still in the collection
ItemsOf(imageId) == { j \in DOMAIN images : images[j].id = imageId }

\* C3: extractImageMetadata returns a result for every outcome of the decoder,
\* the decoder throwing included; usedFallback is true, with the wall-clock
\* time as the date, exactly when the decoder threw or none of the three
\* fields is present; and a decoding error never makes the WorkItem Failed:
\* the item stays processing, and only a file that cannot be loaded or
\* encoded is ever marked error.
C3_ResolverNeverFails ==
    /\ \A run \in runs :
          run.pc = "load" =>
             /\ run.exif \in PipelineExif
             /\ run.usedFallback <=>
                   (run.exif.kind = "throw" \/ PresentTags(run.exif) = {})
             /\ run.usedFallback =>
                   run.timestamp = ExpectedRender(ClockDate, run.cfg.dateFormat)
             /\ \A j \in ItemsOf(imageIdOf(run)) : images[j].status = "processing"
    /\ \A j \in DOMAIN images :
          images[j].status = "error" =>
             FileNamed(images[j].originalName).content = "broken"

\* the decoder threw, the fallback was returned and the item is still being
\* processed: its image is loading
C3_Witness ==
    \E run \in runs :
       /\ run.pc = "load"
       /\ run.exif = ExifThrow
       /\ run.usedFallback
       /\ \E j \in ItemsOf(imageIdOf(run)) : images[j].status = "processing"

Finishing(run) == run \in runs /\ \A r2 \in runs' : r2.ids # run.ids

BatchSettled(run, imgs) ==
    LET n   == Len(run.files)
        pos == { j \in DOMAIN imgs : \E k \in 1 .. n : imgs[j].id = run.ids[k] }
    IN  \/ pos = {}
        \/ /\ Cardinality(pos) = n
           /\ \A k \in 1 .. n :
                 LET j == Min(pos) + k - 1
                 IN  /\ j \in pos
                     /\ imgs[j].id = run.ids[k]
                     /\ imgs[j].originalName = run.files[k].name
                     /\ imgs[j].status =
                           IF run.files[k].content = "broken" THEN "error" ELSE "done"
           /\ Cardinality({ j \in pos : imgs[j].status = "error" })
                 = Cardinality({ k \in 1 .. n : run.files[k].content = "broken" })

\* C5: when the processing of a batch of n accepted files ends, of which k
\* cannot be loaded or encoded, its items (unless clear-all removed them) are
\* all in the collection in submission order, exactly k of them error and
\* n - k done, the failing files' items being the error ones; and a step that
\* settles one item changes no other item.
C5_ItemsIndependent ==
    [][ /\ \A run \in runs : Finishing(run) => BatchSettled(run, images')
        /\ images' # <<>> =>
              Cardinality({ j \in DOMAIN images \cap DOMAIN images' :
                              images'[j] # images[j] }) <= 1
      ]_vars

\* a batch whose first file failed and whose second file is in the pipeline
C5_Witness ==
    \E run \in runs :
       /\ Len(run.files) = 2
       /\ run.i = 2
       /\ run.pc = "encode"
       /\ \E j \in ItemsOf(run.ids[1]) : images[j].status = "error"
       /\ \E j \in ItemsOf(run.ids[2]) : images[j].status = "processing"

\* C6: at most one file's pipeline is in flight at any time, and WorkItems
\* reach their terminal state in the order they were submitted, for any
\* sequence of submissions.
C6_OnePipelineInOrder ==
    /\ Cardinality(runs) <= 1
    /\ \A j, k \in DOMAIN images :
          (j < k /\ Terminal(images[k])) => Terminal(images[j])

HandlesOf(imgs) == { imgs[j].processedUrl : j \in DOMAIN imgs } \ {EmptyString}

\* C7: clear-all revokes the output handle of every WorkItem of the collection
\* that has one and leaves the collection empty: afterwards no WorkItem and no
\* unreleased handle of a previously listed item remains.
C7_ClearAllReleases ==
    [][ HandleClearAll =>
          /\ images' = <<>>
          /\ HandlesOf(images) \subseteq revokedUrls'
          /\ HandlesOf(images) \cap liveUrls' = {}
      ]_vars

\* the collection has been cleared and a handle was revoked by it
C7_Witness ==
    /\ images = <<>>
    /\ revokedUrls # {}
    /\ liveUrls = {}

\* C18: in every interleaving of submissions, completions and clear-all,
\* every output handle minted and not released is owned by a WorkItem of the
\* collection; an item that completes after clear-all is not re-added and
\* its resource is discarded.
C18_NoHandleLeak ==
    /\ liveUrls \subseteq HandlesOf(images)
    /\ \A j \in DOMAIN images : images[j].id < nextId

HasImageType(file) ==
    /\ Len(file.type) >= 6
    /\ file.type[1] = "i" /\ file.type[2] = "m" /\ file.type[3] = "a"
    /\ file.type[4] = "g" /\ file.type[5] = "e" /\ file.type[6] = "/"

\* C8: a submission accepts exactly the files whose content type starts with
\* "image/"; for each of them a processing WorkItem is appended, in
\* submission order and after all existing items, in the step of the
\* submission itself, when no file of it has entered the pipeline yet; a
\* submission with no accepted file changes nothing.  (Only a submission
\* creates ids or raises isProcessing, so only such steps are examined.)
C8_SubmissionAppendsPending ==
    [][ (nextId' # nextId \/ (~isProcessing /\ isProcessing')) =>
        \A files \in Submissions :
          HandleFiles(files) =>
             LET acc == SelectSeq(files, HasImageType)
             IN  IF acc = <<>>
                 THEN UNCHANGED appVars
                 ELSE /\ Len(images') = Len(images) + Len(acc)
                      /\ SubSeq(images', 1, Len(images)) = images
                      /\ \A k \in 1 .. Len(acc) :
                            LET item == images'[Len(images) + k]
                            IN  /\ item.originalName = acc[k].name
                                /\ item.status = "processing"
                                /\ item.processedUrl = EmptyString
                                /\ item.timestamp = EmptyString
                                /\ item.usedFallback = FALSE
                                /\ \A j \in DOMAIN images' :
                                      j # Len(images) + k => images'[j].id # item.id
                      /\ runs \subseteq runs'
                      /\ \E run \in runs' \ runs :
                            /\ run.pc = "resolve"
                            /\ run.i = 1
                            /\ run.files = acc
                            /\ \A k \in 1 .. Len(acc) :
                                  run.ids[k] = images'[Len(images) + k].id
      ]_vars

\* a submission has just been accepted behind an item that was already there
C8_Witness ==
    \E run \in runs :
       /\ run.pc = "resolve"
       /\ run.i = 1
       /\ Len(images) > Len(run.ids)
       /\ \A k \in DOMAIN run.ids :
             LET j == Len(images) - Len(run.ids) + k
             IN  images[j].id = run.ids[k] /\ images[j].status = "processing"

\* C9: a WorkItem has a non-empty processedUrl exactly when it is done; an
\* item that is processing or error has empty processedUrl, empty timestamp
\* and usedFallback = false.
C9_OutputIffDone ==
    \A j \in DOMAIN images :
       /\ (images[j].processedUrl # EmptyString) <=> (images[j].status = "done")
       /\ images[j].status \in {"processing", "error"} =>
             /\ images[j].processedUrl = EmptyString
             /\ images[j].timestamp = EmptyString
             /\ images[j].usedFallback = FALSE

\* a done item with its handle in a collection that also holds an error item
C9_Witness ==
    /\ \E j \in DOMAIN images :
          images[j].status = "done" /\ images[j].processedUrl # EmptyString
    /\ \E j \in DOMAIN images : images[j].status = "error"

(***************************************************************************)
(* Download                                                                *)
(***************************************************************************)
\* the positions of the done items of the collection, in order
DonePositions(imgs) == { j \in DOMAIN imgs : imgs[j].status = "done" }

\* snap lists exactly the done items of imgs, in their order
IsDoneSnapshot(snap, imgs) ==
    /\ Len(snap) = Cardinality(DonePositions(imgs))
    /\ \A a \in DOMAIN snap :
          /\ snap[a].status = "done"
          /\ \E j \in DonePositions(imgs) :
                /\ imgs[j] = snap[a]
                /\ Cardinality({ i \in DonePositions(imgs) : i < j }) = a - 1

\* C16: download-all acts on the done items at the moment it is requested:
\* with none it does nothing, with one it emits that item directly and
\* builds no archive, with two or more it builds one archive from exactly
\* those items (an archive, when emitted, holds one file per item of the
\* snapshot, in order, and nothing else); processing and error items are
\* never included, and no download step changes a WorkItem.
C16_DownloadAllSnapshot ==
    [][ /\ HandleDownloadAll =>
            LET n == Cardinality(DonePositions(images))
            IN  /\ n = 0 => UNCHANGED dlVars
                /\ n = 1 =>
                      /\ download' = NoDownload
                      /\ emitted'.kind = "single"
                      /\ \E j \in DonePositions(images) :
                            emitted'.href = images[j].processedUrl
                /\ n >= 2 =>
                      /\ emitted' = emitted
                      /\ download'.pc = "fetch"
                      /\ download'.added = << >>
                      /\ IsDoneSnapshot(download'.snap, images)
        /\ FetchSettles =>
              /\ emitted' = emitted
              /\ download'.pc # "idle" => download'.snap = download.snap
        /\ ArchiveReady =>
              /\ emitted'.kind = "zip"
              /\ Len(emitted'.entries) = Len(download.snap)
              /\ \A a \in DOMAIN download.snap :
                    /\ download.snap[a].status = "done"
                    /\ emitted'.entries[a].url = download.snap[a].processedUrl
        /\ (HandleDownloadAll \/ FetchSettles \/ ArchiveReady) =>
              images' = images
        /\ emitted' # emitted => (HandleDownloadAll \/ ArchiveReady)
      ]_vars

\* an archive of two done items has been emitted
C16_Witness ==
    /\ emitted.kind = "zip"
    /\ Len(emitted.entries) = 2
    /\ emitted.entries[1].url # emitted.entries[2].url

(***************************************************************************)
(* Preference store                                                        *)
(***************************************************************************)
\* the storage can be read and holds an object with a config property
HasStoredConfig(st) ==
    /\ ~st.fails
    /\ st.item.kind = "json"
    /\ st.item.value[1].type = "object"
    /\ st.item.value[1].config # << >>

\* C17: loadConfig always returns a configuration with every field: with
\* nothing stored, unreadable storage or unparsable content it returns
\* DEFAULT_CONFIG; otherwise, whatever the stored version, each stored field
\* has its stored value and each field missing from the stored value has its
\* default.  A saveConfig whose storage access throws changes neither the
\* storage nor the running configuration.
C17_LoadConfigTotal ==
    [][ /\ LoadConfigOnMount =>
              LET r == stLoaded'[1]
              IN  /\ DOMAIN DEFAULT_CONFIG \subseteq DOMAIN r
                  /\ ~HasStoredConfig(storage) => r = DEFAULT_CONFIG
                  /\ HasStoredConfig(storage) =>
                        LET sc == storage.item.value[1].config[1]
                        IN  /\ \A f \in DOMAIN sc : r[f] = sc[f]
                            /\ \A f \in DOMAIN DEFAULT_CONFIG \ DOMAIN sc :
                                  r[f] = DEFAULT_CONFIG[f]
        /\ \A cfg \in SampleConfigs :
              SaveConfigCall(cfg) =>
                 /\ config' = config
                 /\ stLoaded' = stLoaded
                 /\ storage.fails => storage' = storage
      ]_vars

\* a config of another version with one field has been loaded: the stored
\* font size with the default of every other field
C17_Witness ==
    /\ storage = [item |-> ItemJson(JsonObject(<<2>>, <<[fontSize |-> 48]>>)),
                  fails |-> FALSE]
    /\ stLoaded # << >>
    /\ stLoaded[1].fontSize = 48
    /\ stLoaded[1].strokeWidth = 5
    /\ config = stLoaded[1]

\* ---------------------------------------------------------------------
\* C21: compositing order of one export
IsExport == cvCalled /\ ~cvIn.surface.preview

OpsAt(name) == {k \in DOMAIN cvOps : cvOps[k].op = name}

\* C21: in an export the source image is drawn first, at (0, 0) on a canvas
\* of the image's own size; the outline is drawn iff strokeWidth > 0, with
\* that line width, round joins and strokeColor, and before the fill; the
\* fill is drawn exactly once, in fontColor; the canvas is encoded once,
\* after the fill, as the last call.
C21_CompositingOrder ==
    IsExport =>
        /\ OpsAt("drawImage") = {1}
        /\ cvOps[1].x10 = 0 /\ cvOps[1].y10 = 0
        /\ cvOps[1].canvasWidth = cvIn.surface.width
        /\ cvOps[1].canvasHeight = cvIn.surface.height
        /\ (OpsAt("strokeText") # {}) <=> (cvIn.cfg.strokeWidth > 0)
        /\ Cardinality(OpsAt("strokeText")) <= 1
        /\ \A k \in OpsAt("strokeText") :
              /\ cvOps[k].lineWidth = cvIn.cfg.strokeWidth
              /\ cvOps[k].lineJoin = "round"
              /\ cvOps[k].style = cvIn.cfg.strokeColor
              /\ \A f \in OpsAt("fillText") : k < f
        /\ Cardinality(OpsAt("fillText")) = 1
        /\ \A f \in OpsAt("fillText") :
              /\ cvOps[f].style = cvIn.cfg.fontColor
              /\ f > 1
              /\ \A b \in OpsAt("toBlob") : f < b
        /\ OpsAt("toBlob") = {Len(cvOps)}

\* an export with an outline: image, outline, fill, encoding
C21_Witness ==
    /\ IsExport
    /\ cvIn.cfg.strokeWidth > 0
    /\ Len(cvOps) = 4
    /\ cvOps[2].op = "strokeText" /\ cvOps[3].op = "fillText"

\* ---------------------------------------------------------------------
\* C22: every item settles
IsProcessingItem(id) ==
    \E j \in DOMAIN images : images[j].id = id /\ images[j].status = "processing"

ProcessingCount ==
    Cardinality({j \in DOMAIN images : images[j].status = "processing"})

\* C22: when every awaited call eventually settles, every item that is
\* processing eventually is not (it is done, failed, or was removed by
\* clear-all), and the number of processing items returns to 0.
C22_EveryItemSettles ==
    /\ \A id \in 1 .. MaxItems : IsProcessingItem(id) ~> ~IsProcessingItem(id)
    /\ (ProcessingCount > 0) ~> (ProcessingCount = 0)

\* a batch whose first item failed and whose later item is done, with no
\* invocation left running
C22_Witness ==
    /\ runs = {}
    /\ \E j, k \in DOMAIN images :
          /\ j < k
          /\ images[j].status = "error"
          /\ images[k].status = "done"

\* ---------------------------------------------------------------------
\* C23: the configuration of a run
TimestampsFor(cfg) ==
    { formatDate(extractImageMetadata(exif, ClockDate).date, cfg.dateFormat) :
        exif \in PipelineExif }

BecomesDone(j) ==
    /\ j \in DOMAIN images /\ j \in DOMAIN images'
    /\ images'[j].id = images[j].id
    /\ images[j].status = "processing"
    /\ images'[j].status = "done"

\* C23: an invocation keeps the configuration that was current when its
\* files were submitted; an item that becomes done carries a timestamp
\* formatted with that configuration; a configuration change leaves the
\* items as they are, and a done item never changes while it is in the list.
C23_ConfigFixedPerRun ==
    [][ /\ \A r2 \in runs' :
              \/ \E r \in runs : r.ids = r2.ids /\ r2.cfg = r.cfg
              \/ (\A r \in runs : r.ids # r2.ids) /\ r2.cfg = config
        /\ (images' # images) =>
              /\ \A j \in DOMAIN images' :
                    BecomesDone(j) =>
                       \E r \in runs :
                          /\ imageIdOf(r) = images[j].id
                          /\ images'[j].timestamp \in TimestampsFor(r.cfg)
              /\ \A j \in DOMAIN images :
                    images[j].status = "done" =>
                       \/ j \notin DOMAIN images'
                       \/ images'[j].id # images[j].id
                       \/ images'[j] = images[j]
        /\ (config' # config) => (images' = images /\ runs' = runs)
      ]_vars

\* the first item of a batch is done, the batch is still running, and the
\* current configuration is no longer the one the batch was submitted with
C23_Witness ==
    \E r \in runs :
        /\ r.cfg # config
        /\ r.i > 1
        /\ \E j \in DOMAIN images :
              /\ images[j].id = r.ids[1]
              /\ images[j].status = "done"
              /\ images[j].timestamp \in TimestampsFor(r.cfg)
              /\ images[j].timestamp \notin TimestampsFor(config)

\* ---------------------------------------------------------------------
\* C24: the format string follows the presets
CombinedPresets(cfg) ==
    IF cfg.timeFormatPreset = << >> THEN cfg.dateFormatPreset
    ELSE cfg.dateFormatPreset \o <<" ">> \o cfg.timeFormatPreset

StoredConfigIs(cfg) ==
    storage.item = ItemJson(JsonObject(<<CONFIG_VERSION>>, <<cfg>>))

\* C24: whenever useCustomFormat is false, dateFormat is the date preset
\* alone if the time preset is empty, and otherwise the date preset, one
\* space and the time preset; so no custom text survives switching the
\* custom format off.
C24_FormatFollowsPresets ==
    ~config.useCustomFormat => config.dateFormat = CombinedPresets(config)

\* the custom format is off with the empty time preset selected, after a
\* configuration with a typed custom text had been in use (it was saved)
C24_Witness ==
    /\ ~config.useCustomFormat
    /\ config.timeFormatPreset = << >>
    /\ config.dateFormatPreset # DEFAULT_CONFIG.dateFormatPreset
    /\ \E c \in CustomTexts, d \in DATE_FORMAT_PRESETS, t \in TIME_FORMAT_PRESETS :
          StoredConfigIs([DEFAULT_CONFIG EXCEPT !.useCustomFormat = TRUE,
                                                !.dateFormat = c,
                                                !.dateFormatPreset = d,
                                                !.timeFormatPreset = t])

\* ---------------------------------------------------------------------
\* C25: the debounced save
TimerFired == timers' # timers /\ saveTimeout' = 0 /\ config' = config

OneTimerForLatest ==
    /\ Cardinality(timers') <= 1
    /\ \A t \in timers' : t.config = config' /\ t.id = saveTimeout'

\* C25 as stated: at most one timer is pending and it holds the most recent
\* configuration; when the timer fires the stored configuration is the
\* most recent one.
C25_SavedIsMostRecent ==
    [][ /\ OneTimerForLatest
        /\ TimerFired => StoredConfigIs(config)'
      ]_vars

\* C25, amended: as above, but when the storage throws the write is
\* dropped and the stored item stays as it was.
C25_SavedIsMostRecentUnlessWriteFails ==
    [][ /\ OneTimerForLatest
        /\ TimerFired =>
              IF storage.fails THEN storage' = storage
              ELSE StoredConfigIs(config)'
      ]_vars

\* no timer is pending and the store holds the current, changed configuration
C25_Witness ==
    /\ timers = {}
    /\ ~storage.fails
    /\ config # DEFAULT_CONFIG
    /\ StoredConfigIs(config)

\* ---------------------------------------------------------------------
\* C26: the lightbox index
LightboxLen == Len(doneImagesOf(images))

StaysOpenOnSameList ==
    /\ lightboxOpen /\ lightboxOpen'
    /\ images' = images

\* C26: while the lightbox is open on n >= 1 images its index is within
\* 0 .. n-1; ArrowRight / next moves to (index + 1) mod n and ArrowLeft /
\* previous to (index - 1) mod n, and neither moves when n <= 1; Escape
\* closes; while the lightbox is closed a key changes nothing, and the
\* lightbox state changes only by opening it.
C26_IndexInRange ==
    [][ /\ (lightboxOpen' /\ LightboxLen' >= 1) => index' \in 0 .. (LightboxLen' - 1)
        /\ (lightboxOpen /\ (HandleKeyDown("ArrowRight") \/ NavButton(TRUE))) =>
              /\ lightboxOpen'
              /\ index' = IF LightboxLen <= 1 THEN index
                          ELSE (index + 1) % LightboxLen
        /\ (lightboxOpen /\ (HandleKeyDown("ArrowLeft") \/ NavButton(FALSE))) =>
              /\ lightboxOpen'
              /\ index' = IF LightboxLen <= 1 THEN index
                          ELSE (index + LightboxLen - 1) % LightboxLen
        /\ (lightboxOpen /\ HandleKeyDown("Escape")) => ~lightboxOpen'
        /\ ~lightboxOpen =>
              /\ \A key \in Keys : HandleKeyDown(key) => UNCHANGED lbVars
              /\ UNCHANGED lbVars \/ (lightboxOpen' /\ images' = images)
      ]_vars

\* the lightbox was opened on the second of two images and has moved to
\* the first
C26_Witness ==
    /\ lightboxOpen
    /\ LightboxLen = 2
    /\ lightboxIndex = 1
    /\ index = 0

\* ---------------------------------------------------------------------
\* C29: the image on show
ShownId ==
    IF lightboxOpen /\ index + 1 \in DOMAIN doneImagesOf(images)
    THEN doneImagesOf(images)[index + 1].id
    ELSE 0

\* C29: while the lightbox stays open, a step that changes the collection
\* (an item becoming done or failing) leaves the image on show the same.
C29_ShownImageStable ==
    [][ (lightboxOpen /\ lightboxOpen' /\ images' # images) => ShownId' = ShownId ]_vars

\* ---------------------------------------------------------------------
\* C27: the entries of the archive
\* C27: the archive made from k >= 2 done items holds exactly k entries,
\* one for the output of each of the items.
C27_ArchiveHasEveryItem ==
    emitted.kind = "zip" =>
        /\ Cardinality(DOMAIN emitted.archive) = Len(emitted.entries)
        /\ \A k \in DOMAIN emitted.entries :
              \E n \in DOMAIN emitted.archive :
                  emitted.archive[n] = emitted.entries[k].url

\* ---------------------------------------------------------------------
\* C28: the isProcessing flag
\* C28: isProcessing is true whenever an item is processing, and it turns
\* false only in a step after which no invocation of handleFiles is running.
C28_FlagCoversProcessing ==
    [][ /\ (ProcessingCount' > 0) => isProcessing'
        /\ (isProcessing /\ ~isProcessing') => runs' = {}
      ]_vars

\* ---------------------------------------------------------------------
\* C30: the preview and the export draw alike
\* what processImage draws for the same config and text width on an image
\* of the size of the preview canvas
ExportTwin ==
    drawOverlay(pvCfg,
                [preview |-> FALSE, width |-> SAMPLE_IMAGE_WIDTH,
                 height |-> SAMPLE_IMAGE_HEIGHT, shadow0 |-> NeutralShadow],
                pvTextWidth)

\* C30: after any sequence of config changes on the one preview canvas,
\* the preview has made the text draw calls processImage makes for the same
\* config on an image of the same size: the same calls in the same order,
\* at the same anchor, with the same shadow blur and offsets at each call,
\* and with the same effective font size.
C30_PreviewDrawsAsExport ==
    pvDraws # << >> =>
        /\ Len(pvDraws) = Len(ExportTwin)
        /\ \A k \in DOMAIN pvDraws :
              /\ pvDraws[k].op = ExportTwin[k].op
              /\ pvDraws[k].x10 = ExportTwin[k].x10
              /\ pvDraws[k].y10 = ExportTwin[k].y10
              /\ pvDraws[k].shadow.blur = ExportTwin[k].shadow.blur
              /\ pvDraws[k].shadow.offsetX = ExportTwin[k].shadow.offsetX
              /\ pvDraws[k].shadow.offsetY = ExportTwin[k].shadow.offsetY
              /\ pvDraws[k].font10 =
                    relativeFontSize10(pvCfg.fontSize, SAMPLE_IMAGE_WIDTH)

\* the preview was drawn again after config changes, with the drop shadow
\* on, an outline and a fill, anchored at the top with a font size below
\* the minimum
C30_Witness ==
    /\ Len(pvDraws) = 2
    /\ pvCfg.dropShadowEnabled
    /\ pvCfg.dropShadowBlur = 4
    /\ pvCfg.position = "topRight"
    /\ pvCfg.fontSize = 12
    /\ pvDraws[1].shadow.blur = 4
    /\ pvDraws[2].shadow.blur = 0

====
